---- MODULE Spec2Model ----
(***************************************************************************)
(* Model of the aggregation core of the agency dashboard                   *)
(* (src/api_client.py): the paginated opportunity fetch, the funnel        *)
(* aggregation of get_center_stats_base, the ads extraction of             *)
(* fetch_meta_metrics, the rate formulas of the appointment reduction, the *)
(* join and the fleet summary, and the gather barrier of the per-center    *)
(* batches.                                                                *)
(*                                                                         *)
(* Each component has its own specification over the shared variables; the *)
(* variables of the other components keep their initial value.             *)
(*                                                                         *)
(* Numbers.  Counts are naturals.  A Python float that the code rounds to  *)
(* k decimals is held as the integer number of 10^-k units (one decimal:   *)
(* tenths).  An unrounded quotient is held exactly, as a reduced fraction  *)
(* [num, den].  A Python expression that would raise is the value Raised.  *)
(***************************************************************************)
EXTENDS Integers, Sequences, FiniteSets, TLC

VARIABLES
    \* fetch_all_opportunities (src/api_client.py:10-44)
    items,            \* the accumulated opportunities
    start_after_id,   \* cursor taken from the previous page's meta (0: falsy)
    start_after,      \* cursor taken from the previous page's meta (0: falsy)
    has_more,         \* the loop flag
    fpc,              \* "request": in the while loop; "done": returned items
    lastUrl,          \* the url of the latest request
    lastMeta,         \* the cursor in the meta of the latest page that had a next page
    served,           \* the responses received so far (first MaxRequests)
    nreq,             \* number of requests issued, saturating at MaxRequests+1
    \* get_center_stats_base, from the fetched opportunities on (:84-180)
    all_opportunities,   \* the list fetch_all_opportunities returned
    date_field,          \* "updatedAt" or "createdAt"; "" before the call
    stats,               \* the record returned; NoResult before the call
    \* fetch_meta_metrics (:364-460)
    response,            \* what the insights endpoint answers
    meta_metrics,        \* the record returned; NoResult before the call
    \* the rate formulas of the five components, on the same counts
    counts,              \* the counts the formulas are applied to
    rates,               \* the rates computed, each with its denominator
    \* a batch: fetch_centers_data, fetch_centers_data_created,
    \* fetch_meta_metrics_for_centers, fetch_appointments_for_centers
    batch,               \* which of the four is running ("": none)
    selected_center_names,   \* the names the caller selected, in its order
    tasks,               \* per selected center: the coroutine gather runs
    completed,           \* the tasks in the order they completed
    returned,            \* what the batch call gave back to its caller
    \* fetch_combined_performance_data, then get_performance_summary
    created_data,        \* what fetch_centers_data_created returned
    meta_data,           \* what fetch_meta_metrics_for_centers returned
    ppc,                 \* "join", then "summary", then "done"
    combined_results,    \* the joined list
    summary,             \* the fleet summary; NoResult before the call
    \* one browser session of the dashboard script (src/main.py)
    configured,          \* st.secrets holds auth.username and auth.password
    logged_in,           \* st.session_state["logged_in"] (FALSE: absent or False)
    mpc,                 \* position of the script run; "waiting" between runs
    event,               \* what started the run: the widget the user acted on
    rendered,            \* what the last finished run left on the screen
    current_page,        \* page: the page chosen in the sidebar
    centers_selected,    \* whether the center multiselect holds a center
    shown,               \* the page module dispatched last ("": none yet)
    fetch_issued,        \* the batch fetch issued last ("": none yet)
    ndispatched,         \* number of page dispatches so far
    nruns                \* number of runs the user has started

varsFetch ==
    <<items, start_after_id, start_after, has_more, fpc, lastUrl, lastMeta, served, nreq>>

varsFunnel == <<all_opportunities, date_field, stats>>

varsMeta == <<response, meta_metrics>>

varsRates == <<counts, rates>>

varsBatch == <<batch, selected_center_names, tasks, completed, returned>>

varsPerf == <<created_data, meta_data, ppc, combined_results, summary>>

varsMain ==
    <<configured, logged_in, mpc, event, rendered, current_page, centers_selected, shown,
      fetch_issued, ndispatched, nruns>>

vars == <<varsFetch, varsFunnel, varsMeta, varsRates, varsBatch, varsPerf, varsMain>>

\* What the actions of a component leave alone: the other components.
notFetch == <<varsFunnel, varsMeta, varsRates, varsBatch, varsPerf, varsMain>>
notFunnel == <<varsFetch, varsMeta, varsRates, varsBatch, varsPerf, varsMain>>
notMeta == <<varsFetch, varsFunnel, varsRates, varsBatch, varsPerf, varsMain>>
notRates == <<varsFetch, varsFunnel, varsMeta, varsBatch, varsPerf, varsMain>>
notBatch == <<varsFetch, varsFunnel, varsMeta, varsRates, varsPerf, varsMain>>
notPerf == <<varsFetch, varsFunnel, varsMeta, varsRates, varsBatch, varsMain>>
notMain == <<varsFetch, varsFunnel, varsMeta, varsRates, varsBatch, varsPerf>>

----------------------------------------------------------------------------
(* Generic helpers *)

Min(a, b) == IF a < b THEN a ELSE b

Range(s) == {s[i] : i \in DOMAIN s}

\* All sequences over S of length at most n.
SeqsUpTo(S, n) == UNION {[1..k -> S] : k \in 0..n}

RECURSIVE GCD(_, _)
GCD(a, b) == IF b = 0 THEN a ELSE GCD(b, a % b)

\* The rational n / d (n >= 0, d > 0), reduced.
Rat(n, d) == LET g == GCD(n, d) IN [num |-> n \div g, den |-> d \div g]

Zero == [num |-> 0, den |-> 1]

\* What a division by zero yields in place of a number.
ZeroDivisionError == [num |-> 0, den |-> 0]

FromInt(n) == [num |-> n, den |-> 1]

\* Python's a / b on two non-negative numbers; an operand that raised, raises.
RatDiv(a, b) ==
    IF a = ZeroDivisionError \/ b = ZeroDivisionError \/ b.num = 0 THEN ZeroDivisionError
    ELSE Rat(a.num * b.den, a.den * b.num)

\* Python's n / d on two non-negative integers.
Div(n, d) == RatDiv(FromInt(n), FromInt(d))

\* a > 0
Positive(a) == a.num > 0

\* a + b and a * b on two non-negative numbers.
RatAdd(a, b) == Rat(a.num * b.den + b.num * a.den, a.den * b.den)
RatMul(a, b) == Rat(a.num * b.num, a.den * b.den)

----------------------------------------------------------------------------
(* fetch_all_opportunities: one action per iteration of the while loop     *)

\* Bounds of the fetch model.
MaxRequests == 3      \* requests whose response is recorded
MaxItems == 4         \* the server stops sending items beyond this many
MaxCursor == 1        \* cursor values are 0 (absent / None / falsy) .. MaxCursor

\* The page size the client asks for.
PageLimit == 100

\* Opportunities are identified by their id in this component.
PageChoices == {<<>>, <<1>>, <<2>>, <<1, 2>>}

CursorVals == 0..MaxCursor

\* The url of the next request: limit, plus the cursor when both parts are truthy.
RequestUrl ==
    IF start_after_id # 0 /\ start_after # 0
    THEN [limit |-> PageLimit, cursor |-> TRUE,
          startAfterId |-> start_after_id, startAfter |-> start_after]
    ELSE [limit |-> PageLimit, cursor |-> FALSE, startAfterId |-> 0, startAfter |-> 0]

\* A slip: the page replaces what was collected instead of extending it.
ReplaceItems(page) == page

\* items.extend(page)
ExtendItems(page) == items \o page

\* History of the conversation with the server.
Record(resp) ==
    /\ lastUrl' = RequestUrl
    /\ served' = IF nreq < MaxRequests THEN Append(served, resp) ELSE served
    /\ nreq' = Min(nreq + 1, MaxRequests + 1)

Response(kind, page, next) ==
    [kind |-> kind, opportunities |-> page, nextPageUrl |-> next]

NoCursor == [startAfterId |-> 0, startAfter |-> 0]

InLoop == fpc = "request" /\ has_more

\* A slip: the loop goes on to another request after a failure.
RetryAfterFailure == "request"

\* What the loop does after a failed request: break, then return items.
AfterFailure == "done"

\* 200, and meta carries nextPageUrl: extend, take the cursor, loop again.
PageOkMore ==
    /\ InLoop
    /\ \E page \in PageChoices, id \in CursorVals, sa \in CursorVals :
        /\ Len(items) + Len(page) <= MaxItems
        /\ items' = ExtendItems(page)
        /\ start_after_id' = id
        /\ start_after' = sa
        /\ lastMeta' = [startAfterId |-> id, startAfter |-> sa]
        /\ Record(Response("ok", page, TRUE))
    /\ UNCHANGED <<has_more, fpc>>
    /\ UNCHANGED notFetch

\* 200, and meta has no nextPageUrl: extend, has_more = False, return.
PageOkLast ==
    /\ InLoop
    /\ \E page \in PageChoices :
        /\ Len(items) + Len(page) <= MaxItems
        /\ items' = ExtendItems(page)
        /\ Record(Response("ok", page, FALSE))
    /\ has_more' = FALSE
    /\ fpc' = "done"
    /\ UNCHANGED <<start_after_id, start_after, lastMeta>>
    /\ UNCHANGED notFetch

\* status != 200: break.
PageNon200 ==
    /\ InLoop
    /\ Record(Response("non200", <<>>, FALSE))
    /\ fpc' = AfterFailure
    /\ UNCHANGED <<items, start_after_id, start_after, has_more, lastMeta>>
    /\ UNCHANGED notFetch

\* session.get or response.json() raises: except, break.
PageTransportError ==
    /\ InLoop
    /\ Record(Response("transport", <<>>, FALSE))
    /\ fpc' = AfterFailure
    /\ UNCHANGED <<items, start_after_id, start_after, has_more, lastMeta>>
    /\ UNCHANGED notFetch

\* 200 with a body whose "meta" is null: items are extended, then meta.get
\* raises AttributeError: except, break.
PageBadMeta ==
    /\ InLoop
    /\ \E page \in PageChoices :
        /\ Len(items) + Len(page) <= MaxItems
        /\ items' = ExtendItems(page)
        /\ Record(Response("badmeta", page, FALSE))
    /\ fpc' = "done"
    /\ UNCHANGED <<start_after_id, start_after, has_more, lastMeta>>
    /\ UNCHANGED notFetch

IdleFetch ==
    /\ items = <<>>
    /\ start_after_id = 0
    /\ start_after = 0
    /\ has_more = TRUE
    /\ fpc = "request"
    /\ lastUrl = [limit |-> 0, cursor |-> FALSE, startAfterId |-> 0, startAfter |-> 0]
    /\ lastMeta = NoCursor
    /\ served = <<>>
    /\ nreq = 0


NextFetch ==
    \/ PageOkMore
    \/ PageOkLast
    \/ PageNon200
    \/ PageTransportError
    \/ PageBadMeta

----------------------------------------------------------------------------
(* utils.canonical, utils.pct, utils.EXCLUDED_STAGE_CANON: utils.py is not  *)
(* part of the sources; these follow sections 3, 4.1 and 4.6 of the        *)
(* specification.                                                          *)

EXCLUDED_STAGE_CANON == "database_reactivation"

\* The canonical stage of a stage display name; unrecognized names, the empty
\* name included, are "unknown".
canonical(name) ==
    CASE name = "Annule" -> "annule"
      [] name = "Confirme" -> "confirme"
      [] name = "CONFIRME" -> "confirme"
      [] name = "Pas venu" -> "pas_venu"
      [] name = "Present" -> "present"
      [] name = "Concretise" -> "concretise"
      [] name = "Non confirme" -> "non_confirme"
      [] name = "Non qualifie" -> "non_qualifie"
      [] name = "Sans reponse" -> "sans_reponse"
      [] name = "Database Reactivation" -> EXCLUDED_STAGE_CANON
      [] OTHER -> "unknown"

\* round(a / b) for a >= 0, b > 0, ties to even (Python's round).
RoundDiv(a, b) ==
    LET q == a \div b
        r == a % b
    IN  IF 2 * r < b THEN q
        ELSE IF 2 * r > b THEN q + 1
        ELSE IF q % 2 = 0 THEN q ELSE q + 1

\* pct(n, d) = round(n / d * 100, 1) when d > 0, else 0; in tenths of a percent.
pct(n, d) == IF d > 0 THEN RoundDiv(n * 1000, d) ELSE 0

----------------------------------------------------------------------------
(* get_center_stats_base: the aggregation of the fetched opportunities     *)

\* Bounds of the funnel model.
MaxOpps == 4          \* opportunities of a center
ShortLen == 2         \* lists up to this length are taken in every order
StartDay == 1         \* the window's start date
WindowDays == 2       \* number of days of the window
TicksPerDay == 3      \* instants of a day (the clock's resolution)

EndDay == StartDay + WindowDays - 1

\* _prepare_datetime_range: time.min of the start date, time.max of the end date.
start_datetime == StartDay * TicksPerDay
end_datetime == EndDay * TicksPerDay + (TicksPerDay - 1)

\* Values of an opportunity's date field: an instant (> 0), Absent (missing,
\* None or ''), or Malformed (a non-empty string fromisoformat rejects).
Absent == 0
Malformed == 0 - 1

\* The stages of the target pipeline (id -> display name); id 0 is the id of
\* no stage of the pipeline.
stage_id_to_name ==
    [id \in 1..11 |->
        CASE id = 1 -> "Annule"
          [] id = 2 -> "Confirme"
          [] id = 3 -> "Pas venu"
          [] id = 4 -> "Present"
          [] id = 5 -> "Concretise"
          [] id = 6 -> "Non confirme"
          [] id = 7 -> "Non qualifie"
          [] id = 8 -> "Sans reponse"
          [] id = 9 -> "Database Reactivation"
          [] id = 10 -> "Nouveau lead"
          [] id = 11 -> "CONFIRME"]

StageIds == 0..11

Opp(stage, created, updated) ==
    [pipelineStageId |-> stage, createdAt |-> created, updatedAt |-> updated]

\* The opportunities the CRM may hold: every stage dated inside the window,
\* and confirmed / excluded ones dated outside it, undated or ill-dated.
OppChoices ==
    [i \in 1..12 |->
        Opp(<<2, 4, 5, 1, 3, 6, 7, 8, 9, 10, 11, 0>>[i], start_datetime, end_datetime)]
    \o <<Opp(2, end_datetime + 1, start_datetime),
         Opp(9, end_datetime + 1, start_datetime),
         Opp(2, Absent, start_datetime - 1),
         Opp(9, Absent, start_datetime - 1),
         Opp(2, start_datetime, Malformed),
         Opp(2, end_datetime, Absent)>>

RECURSIVE NonDecreasing(_, _)
\* The non-decreasing sequences of length k over 1..top.
NonDecreasing(k, top) ==
    IF k = 0 THEN {<<>>}
    ELSE UNION {{Append(s, i) : s \in NonDecreasing(k - 1, i)} : i \in 1..top}

\* The lists of opportunities a fetch may return: every list of at most
\* ShortLen choices, and one ordering of every longer list up to MaxOpps.
OppLists ==
    LET n == Len(OppChoices)
        indices == SeqsUpTo(1..n, ShortLen) \cup UNION {NonDecreasing(k, n) : k \in 0..MaxOpps}
    IN  {[i \in 1..Len(ix) |-> OppChoices[ix[i]]] : ix \in indices}

NoResult == [none |-> TRUE]

\* opp.get(date_field)
DateOf(opp, field) == IF field = "createdAt" THEN opp.createdAt ELSE opp.updatedAt

\* stage_id_to_name.get(opp.get('pipelineStageId', ''), '')
stageName(opp) ==
    IF opp.pipelineStageId \in DOMAIN stage_id_to_name
    THEN stage_id_to_name[opp.pipelineStageId] ELSE ""

stageCanonical(opp) == canonical(stageName(opp))

\* datetime.fromisoformat raises on some opportunity the comprehension reaches.
ParseRaises(opps, field) == \E i \in DOMAIN opps : DateOf(opps[i], field) = Malformed

\* A slip: the window's end is left out.
InWindowOpenEnd(opp, field) ==
    /\ DateOf(opp, field) # Absent
    /\ start_datetime <= DateOf(opp, field)
    /\ DateOf(opp, field) < end_datetime

\* opp.get(date_field) and start_datetime <= fromisoformat(...) <= end_datetime
InWindow(opp, field) ==
    /\ DateOf(opp, field) # Absent
    /\ start_datetime <= DateOf(opp, field)
    /\ DateOf(opp, field) <= end_datetime

opp_filtered_by_date(opps, field) == SelectSeq(opps, LAMBDA o : InWindow(o, field))

\* sum(1 for ...): the number of elements of a list that satisfy a test.
Count(s, Test(_)) == Len(SelectSeq(s, Test))

\* A slip: the total counts every dated opportunity, the excluded stage included.
TotalWithExcluded(byDate) == Len(byDate)

totalRDVPlanifies(byDate) ==
    Count(byDate, LAMBDA o : stageCanonical(o) # EXCLUDED_STAGE_CANON)

opp_filtered(byDate) ==
    SelectSeq(byDate, LAMBDA o : stageCanonical(o) # EXCLUDED_STAGE_CANON)

\* The if / elif chain: one counter per named canonical stage.
StageCount(filtered, canon) == Count(filtered, LAMBDA o : stageCanonical(o) = canon)

\* A slip: no-shows are left out of the confirmed bucket.
ConfirmesWithoutNoShow(confirme, pas_venu, present, concretise) ==
    confirme + present + concretise

confirmes(confirme, pas_venu, present, concretise) ==
    confirme + pas_venu + present + concretise

\* A slip: a sale counts as an attendance and once more as a sale.
ShowUpCountsSalesTwice(present, concretise) == present + concretise + concretise

show_up(present, concretise) == present + concretise

\* A slip: stageStats has a bucket for the named stages only.
StageStatsNamedOnly(filtered) ==
    LET keys == {stageCanonical(filtered[i]) : i \in DOMAIN filtered} \ {"unknown", ""}
    IN  [k \in keys |-> Count(filtered, LAMBDA o : stageCanonical(o) = k)]

\* stageStats: canonical stage -> count, over the stages that occur.
stageStats(filtered) ==
    LET key(o) == IF stageCanonical(o) = "" THEN "unknown" ELSE stageCanonical(o)
        keys == {key(filtered[i]) : i \in DOMAIN filtered}
    IN  [k \in keys |-> Count(filtered, LAMBDA o : key(o) = k)]

\* The metrics dict (the pct_str strings, which format the same five ratios,
\* are left out).
Metrics(filtered, total) ==
    LET annule == StageCount(filtered, "annule")
        confirme == StageCount(filtered, "confirme")
        pas_venu == StageCount(filtered, "pas_venu")
        present == StageCount(filtered, "present")
        concretise == StageCount(filtered, "concretise")
        non_confirme == StageCount(filtered, "non_confirme")
        non_qualifie == StageCount(filtered, "non_qualifie")
        sans_reponse == StageCount(filtered, "sans_reponse")
        conf == confirmes(confirme, pas_venu, present, concretise)
        show == show_up(present, concretise)
    IN  [totalRDVPlanifies |-> total,
         rdvConfirmes |-> conf,
         showUp |-> show,
         confirmationRateNum |-> pct(conf, total),
         cancellationRateNum |-> pct(annule, total),
         noShowRateNum |-> pct(pas_venu, conf),
         presenceRateNum |-> pct(show, conf),
         conversionRateNum |-> pct(concretise, show),
         details |-> [annule |-> annule, confirme |-> confirme, pasVenu |-> pas_venu,
                      present |-> present, concretise |-> concretise,
                      nonConfirme |-> non_confirme, nonQualifie |-> non_qualifie,
                      sansReponse |-> sans_reponse]]

\* The record get_center_stats_base returns once the opportunities are fetched:
\* the metrics, or the error record of the except clause.
CenterStats(opps, field) ==
    IF ParseRaises(opps, field)
    THEN [error |-> "Invalid isoformat string"]
    ELSE LET byDate == opp_filtered_by_date(opps, field)
             filtered == opp_filtered(byDate)
         IN  [stageStats |-> stageStats(filtered),
              metrics |-> Metrics(filtered, totalRDVPlanifies(byDate)),
              filter |-> [startDate |-> start_datetime, endDate |-> end_datetime]]

\* get_center_stats: filtered by updatedAt.
get_center_stats ==
    /\ stats = NoResult
    /\ date_field' = "updatedAt"
    /\ stats' = CenterStats(all_opportunities, "updatedAt")
    /\ UNCHANGED all_opportunities
    /\ UNCHANGED notFunnel

\* get_center_stats_created: filtered by createdAt.
get_center_stats_created ==
    /\ stats = NoResult
    /\ date_field' = "createdAt"
    /\ stats' = CenterStats(all_opportunities, "createdAt")
    /\ UNCHANGED all_opportunities
    /\ UNCHANGED notFunnel

IdleFunnel ==
    /\ all_opportunities = <<>>
    /\ date_field = ""
    /\ stats = NoResult

InputFunnel ==
    /\ all_opportunities \in OppLists
    /\ date_field = ""
    /\ stats = NoResult

NextFunnel ==
    \/ get_center_stats
    \/ get_center_stats_created

----------------------------------------------------------------------------
(* fetch_meta_metrics: the extraction of one insights response             *)

\* Bound of the ads model.
MaxEntries == 2       \* entries of conversions, actions, video actions

Entry(type, value) == [action_type |-> type, value |-> value]

ConversionChoices ==
    {Entry("schedule_total", 2), Entry("offsite_conversion", 4),
     Entry("schedule_total", Malformed)}
ActionChoices ==
    {Entry("lead", 3), Entry("link_click", 2), Entry("post_engagement", 1),
     Entry("link_click", Malformed)}
VideoChoices == {Entry("video_view", 1), Entry("video_view", 2), Entry("video_view", Malformed)}

\* spend, cpm, ctr, impressions and inline_link_clicks of an insights row
\* (a field the row lacks reads as 0).
Basics(spend, cpm, ctr, impressions, clicks) ==
    [spend |-> spend, cpm |-> cpm, ctr |-> ctr, impressions |-> impressions,
     inline_link_clicks |-> clicks]

BasicChoices ==
    {Basics(0, 0, 0, 0, 0), Basics(6, 7, 3, 4, 0), Basics(6, 7, 3, 4, 10),
     Basics(6, 7, 3, 0, 10), Basics(Malformed, 7, 3, 4, 0),
     Basics(6, 7, 3, Malformed, 10)}

\* The rows the insights endpoint may return.  has_video tells whether the
\* row has the key video_30_sec_watched_actions: the rows without it vary in
\* their conversions and actions, the rows with it in their video actions.
InsightsChoices ==
    {[basics |-> b, conversions |-> c, actions |-> a, has_video |-> FALSE, video |-> <<>>] :
        b \in BasicChoices,
        c \in SeqsUpTo(ConversionChoices, MaxEntries),
        a \in SeqsUpTo(ActionChoices, MaxEntries)}
    \cup
    {[basics |-> b, conversions |-> <<>>, actions |-> <<>>, has_video |-> TRUE, video |-> v] :
        b \in BasicChoices,
        v \in SeqsUpTo(VideoChoices, MaxEntries)}

EmptyInsights ==
    [basics |-> Basics(0, 0, 0, 0, 0), conversions |-> <<>>, actions |-> <<>>,
     has_video |-> FALSE, video |-> <<>>]

\* The answers of the endpoint: 200 with a row, 200 with "data": [], a status
\* other than 200, or no answer (session.get raises).
ResponseChoices ==
    {[kind |-> "ok", insights |-> i] : i \in InsightsChoices}
    \cup {[kind |-> k, insights |-> EmptyInsights] : k \in {"nodata", "non200", "transport"}}

RECURSIVE SumValues(_, _)
\* The sum of int(e["value"]) over the entries of type t.
SumValues(entries, t) ==
    IF entries = <<>> THEN 0
    ELSE SumValues(Tail(entries), t)
         + (IF Head(entries).action_type = t THEN Head(entries).value ELSE 0)

RECURSIVE SumUntilRaise(_)
\* The for loop inside try / except Exception: pass -- the sum of the entries
\* before the first one int() rejects.
SumUntilRaise(entries) ==
    IF entries = <<>> \/ Head(entries).value = Malformed THEN 0
    ELSE Head(entries).value + SumUntilRaise(Tail(entries))

\* leads: conversions of type schedule_total.
leads(insights) == SumValues(insights.conversions, "schedule_total")

\* The two-tier rule of section 4.4: actions of type lead when no conversion counts.
LeadsWithFallback(insights) ==
    IF SumValues(insights.conversions, "schedule_total") # 0
    THEN SumValues(insights.conversions, "schedule_total")
    ELSE SumValues(insights.actions, "lead")

\* A slip: the actions are summed whatever the field says.
LinkClicksAlwaysSummed(insights) ==
    insights.basics.inline_link_clicks + SumValues(insights.actions, "link_click")

\* inline_link_clicks: the field, and the link_click actions when it is 0.
inline_link_clicks(insights) ==
    IF insights.basics.inline_link_clicks = 0
    THEN SumValues(insights.actions, "link_click")
    ELSE insights.basics.inline_link_clicks

video_30_sec_watched(insights) ==
    IF insights.has_video THEN SumUntilRaise(insights.video) ELSE 0

\* A slip: an unguarded division.
CprUnguarded(spend, nleads) == Div(spend, nleads)

\* cpr = spend / leads if leads > 0 else 0.0
cpr(spend, nleads) == IF nleads > 0 THEN Div(spend, nleads) ELSE Zero

\* hook_rate = (video_30_sec_watched / impressions * 100) if impressions > 0 else 0
hook_rate(video, impressions) == IF impressions > 0 THEN Div(video * 100, impressions) ELSE Zero

\* conversion_rate = (leads / inline_link_clicks * 100) if inline_link_clicks > 0 else 0
meta_conversion_rate(nleads, clicks) == IF clicks > 0 THEN Div(nleads * 100, clicks) ELSE Zero

\* The zero-valued record of the two failure returns.
ZeroMetrics(error) ==
    [leads |-> 0, spend |-> 0, cpm |-> 0, ctr |-> 0, cpr |-> Zero, impressions |-> 0,
     inline_link_clicks |-> 0, video_30_sec_watched |-> 0, hook_rate |-> Zero,
     conversion_rate |-> Zero, error |-> error]

\* A slip: no conversion ever raises.
NothingRaises(insights) == FALSE

\* float() or int() raises on a string that is no number: in the basic
\* fields, in a schedule_total conversion, or in a link_click action when the
\* actions are read.  (The video loop has its own try / except: pass.)
ExtractRaises(insights) ==
    \/ \E f \in DOMAIN insights.basics : insights.basics[f] = Malformed
    \/ \E i \in DOMAIN insights.conversions :
        insights.conversions[i] = Entry("schedule_total", Malformed)
    \/ /\ insights.basics.inline_link_clicks = 0
       /\ \E i \in DOMAIN insights.actions :
           insights.actions[i] = Entry("link_click", Malformed)

\* The record fetch_meta_metrics returns for an answer of the endpoint.
MetaMetrics(resp) ==
    IF resp.kind = "non200" THEN ZeroMetrics("HTTP error")
    ELSE IF resp.kind = "transport" THEN ZeroMetrics("connection error")
    ELSE IF ExtractRaises(resp.insights) THEN ZeroMetrics("could not convert string to float")
    ELSE LET insights == resp.insights
             b == insights.basics
             nleads == leads(insights)
             clicks == inline_link_clicks(insights)
             video == video_30_sec_watched(insights)
         IN  [leads |-> nleads, spend |-> b.spend, cpm |-> b.cpm, ctr |-> b.ctr,
              cpr |-> cpr(b.spend, nleads), impressions |-> b.impressions,
              inline_link_clicks |-> clicks, video_30_sec_watched |-> video,
              hook_rate |-> hook_rate(video, b.impressions),
              conversion_rate |-> meta_conversion_rate(nleads, clicks)]

fetch_meta_metrics ==
    /\ meta_metrics = NoResult
    /\ meta_metrics' = MetaMetrics(response)
    /\ UNCHANGED response
    /\ UNCHANGED notMeta

IdleMeta ==
    /\ response = [kind |-> "nodata", insights |-> EmptyInsights]
    /\ meta_metrics = NoResult

InputMeta ==
    /\ response \in ResponseChoices
    /\ meta_metrics = NoResult

NextMeta == fetch_meta_metrics

----------------------------------------------------------------------------
(* The rate formulas of the appointment reduction, the join and the fleet  *)
(* summary                                                                 *)

\* round(x, 2)
round2(x) ==
    IF x = ZeroDivisionError THEN ZeroDivisionError
    ELSE Rat(RoundDiv(x.num * 100, x.den), 100)

\* A slip: the no-show and show-up rates over the confirmed status alone.
RatiosOverConfirmedStatus(confirmed, cancelled, noshow, showed, total_appointments) ==
    [confirmed_total |-> confirmed + showed + noshow,
     confirmationRate |->
         IF total_appointments > 0
         THEN round2(Div((confirmed + showed + noshow) * 100, total_appointments)) ELSE Zero,
     cancellationRate |->
         IF total_appointments > 0 THEN round2(Div(cancelled * 100, total_appointments))
         ELSE Zero,
     noShowRate |->
         IF total_appointments > 0 /\ confirmed > 0 THEN round2(Div(noshow * 100, confirmed))
         ELSE Zero,
     showUpRate |->
         IF total_appointments > 0 /\ confirmed > 0 THEN round2(Div(showed * 100, confirmed))
         ELSE Zero]

\* fetch_appointments_for_centers: the four ratios of a center, from its
\* status totals and its number of appointments.
AppointmentRatios(confirmed, cancelled, noshow, showed, total_appointments) ==
    IF total_appointments > 0
    THEN LET confirmed_total == confirmed + showed + noshow
             no_show_rate ==
                 IF confirmed_total > 0 THEN Div(noshow * 100, confirmed_total) ELSE Zero
             show_up_rate ==
                 IF confirmed_total > 0 THEN Div(showed * 100, confirmed_total) ELSE Zero
         IN  [confirmed_total |-> confirmed_total,
              confirmationRate |-> round2(Div(confirmed_total * 100, total_appointments)),
              cancellationRate |-> round2(Div(cancelled * 100, total_appointments)),
              noShowRate |-> round2(no_show_rate),
              showUpRate |-> round2(show_up_rate)]
    ELSE [confirmed_total |-> confirmed + showed + noshow,
          confirmationRate |-> Zero, cancellationRate |-> Zero,
          noShowRate |-> Zero, showUpRate |-> Zero]

\* A slip: the lead-to-appointment rate is taken over the sales.
JoinRatesOfSales(spend, meta_leads, concretise, total_created) ==
    [cpa |-> IF concretise > 0 THEN round2(Div(spend, concretise)) ELSE Zero,
     cpl |-> IF meta_leads > 0 THEN round2(Div(spend, meta_leads)) ELSE Zero,
     lead_to_sale_rate |->
         IF meta_leads > 0 THEN round2(Div(concretise * 100, meta_leads)) ELSE Zero,
     lead_to_appointment_rate |->
         IF meta_leads > 0 THEN round2(Div(concretise * 100, meta_leads)) ELSE Zero]

\* fetch_combined_performance_data: the four cross-system rates of a center.
JoinRates(spend, meta_leads, concretise, total_created) ==
    [cpa |-> IF concretise > 0 THEN round2(Div(spend, concretise)) ELSE Zero,
     cpl |-> IF meta_leads > 0 THEN round2(Div(spend, meta_leads)) ELSE Zero,
     lead_to_sale_rate |->
         IF meta_leads > 0 THEN round2(Div(concretise * 100, meta_leads)) ELSE Zero,
     lead_to_appointment_rate |->
         IF meta_leads > 0 THEN round2(Div(total_created * 100, meta_leads)) ELSE Zero]

Times100(x) == [num |-> x.num * 100, den |-> x.den]

\* get_performance_summary: the averages and overall rates, from the totals
\* t over the n valid centers (every total a number, n an integer).
SummaryRates(t, n) ==
    LET weighted(total) == IF Positive(t.spend) THEN RatDiv(total, t.spend) ELSE Zero
        mean(sum) == IF n # 0 THEN round2(RatDiv(sum, FromInt(n))) ELSE Zero
        ratio(a, b) == IF Positive(b) THEN round2(RatDiv(Times100(a), b)) ELSE Zero
    IN  [avg_cpa |-> IF Positive(t.concretise) THEN round2(RatDiv(t.spend, t.concretise)) ELSE Zero,
         avg_cpl |-> IF Positive(t.meta_leads) THEN round2(RatDiv(t.spend, t.meta_leads)) ELSE Zero,
         avg_cpm |-> round2(weighted(t.cpm)),
         avg_ctr |-> round2(weighted(t.ctr)),
         avg_cpr |-> round2(weighted(t.cpr)),
         overall_hook_rate |-> ratio(t.video_30s, t.impressions),
         overall_meta_conversion_rate |-> ratio(t.meta_leads, t.clicks),
         overall_lead_to_appointment |-> ratio(t.created, t.meta_leads),
         overall_lead_to_sale |-> ratio(t.concretise, t.meta_leads),
         overall_conversion_rate |-> ratio(t.concretise, t.created),
         overall_confirmation_rate |-> mean(t.confirmation_rate),
         overall_cancellation_rate |-> mean(t.cancellation_rate),
         overall_no_show_rate |-> mean(t.no_show_rate)]

----------------------------------------------------------------------------
(* Every rate formula, applied to the same small counts                    *)

\* Bounds of the rates model.
MaxCount == 2         \* each count is 0 .. MaxCount

Rate(name, value, den) == [rate |-> name, value |-> value, den |-> den]

RECURSIVE Repeat(_, _)
Repeat(x, n) == IF n = 0 THEN <<>> ELSE <<x>> \o Repeat(x, n - 1)

\* The funnel rates of counts[1] cancelled, counts[2] confirmed, counts[3]
\* no-show, counts[4] present and counts[5] closed opportunities, and
\* counts[6] opportunities of the excluded stage.
FunnelRates(c) ==
    LET in(stage) == Opp(stage, start_datetime, start_datetime)
        opps == Repeat(in(1), c[1]) \o Repeat(in(2), c[2]) \o Repeat(in(3), c[3])
                \o Repeat(in(4), c[4]) \o Repeat(in(5), c[5]) \o Repeat(in(9), c[6])
        m == CenterStats(opps, "createdAt").metrics
    IN  <<Rate("confirmationRateNum", Rat(m.confirmationRateNum, 10), m.totalRDVPlanifies),
          Rate("cancellationRateNum", Rat(m.cancellationRateNum, 10), m.totalRDVPlanifies),
          Rate("noShowRateNum", Rat(m.noShowRateNum, 10), m.rdvConfirmes),
          Rate("presenceRateNum", Rat(m.presenceRateNum, 10), m.rdvConfirmes),
          Rate("conversionRateNum", Rat(m.conversionRateNum, 10), m.showUp)>>

\* The ads rates of a row with spend counts[1], counts[2] scheduled leads,
\* counts[3] impressions, counts[4] video views, counts[5] link clicks.
AdsRates(c) ==
    LET row == [basics |-> Basics(c[1], c[6], c[6], c[3], c[5]),
                conversions |-> <<Entry("schedule_total", c[2])>>,
                actions |-> <<>>, has_video |-> TRUE,
                video |-> <<Entry("video_view", c[4])>>]
        m == MetaMetrics([kind |-> "ok", insights |-> row])
    IN  <<Rate("cpr", m.cpr, m.leads),
          Rate("hook_rate", m.hook_rate, m.impressions),
          Rate("conversion_rate", m.conversion_rate, m.inline_link_clicks)>>

\* The appointment ratios of counts[1] confirmed, counts[2] cancelled,
\* counts[3] no-show, counts[4] showed and counts[5] other appointments.
AppointmentRates(c) ==
    LET total == c[1] + c[2] + c[3] + c[4] + c[5]
        r == AppointmentRatios(c[1], c[2], c[3], c[4], total)
    IN  <<Rate("confirmationRate", r.confirmationRate, total),
          Rate("cancellationRate", r.cancellationRate, total),
          Rate("noShowRate", r.noShowRate, r.confirmed_total),
          Rate("showUpRate", r.showUpRate, r.confirmed_total)>>

\* The join rates of spend counts[1], counts[2] leads, counts[3] closed and
\* counts[4] created opportunities.
CombinedRates(c) ==
    LET r == JoinRates(c[1], c[2], c[3], c[4])
    IN  <<Rate("cpa", r.cpa, c[3]), Rate("cpl", r.cpl, c[2]),
          Rate("lead_to_sale_rate", r.lead_to_sale_rate, c[2]),
          Rate("lead_to_appointment_rate", r.lead_to_appointment_rate, c[2])>>

\* The fleet rates of one valid center with spend counts[1], counts[2] leads,
\* counts[3] created, counts[4] closed, counts[5] impressions and link
\* clicks, counts[6] video views, and cpm = ctr = cpr = counts[6].
FleetRates(c) ==
    LET weight == IF c[1] > 0 THEN c[6] * c[1] ELSE 0
        t == [spend |-> FromInt(c[1]), meta_leads |-> FromInt(c[2]),
              created |-> FromInt(c[3]), concretise |-> FromInt(c[4]),
              impressions |-> FromInt(c[5]), clicks |-> FromInt(c[5]),
              video_30s |-> FromInt(c[6]),
              cpm |-> FromInt(weight), ctr |-> FromInt(weight), cpr |-> FromInt(weight),
              confirmation_rate |-> FromInt(c[2]), cancellation_rate |-> FromInt(c[3]),
              no_show_rate |-> FromInt(c[4])]
        r == SummaryRates(t, 1)
    IN  <<Rate("avg_cpa", r.avg_cpa, c[4]), Rate("avg_cpl", r.avg_cpl, c[2]),
          Rate("avg_cpm", r.avg_cpm, c[1]), Rate("avg_ctr", r.avg_ctr, c[1]),
          Rate("avg_cpr", r.avg_cpr, c[1]),
          Rate("overall_hook_rate", r.overall_hook_rate, c[5]),
          Rate("overall_meta_conversion_rate", r.overall_meta_conversion_rate, c[5]),
          Rate("overall_lead_to_appointment", r.overall_lead_to_appointment, c[2]),
          Rate("overall_lead_to_sale", r.overall_lead_to_sale, c[2]),
          Rate("overall_conversion_rate", r.overall_conversion_rate, c[3])>>

Compute(component, listing) ==
    /\ rates = <<>>
    /\ rates' = <<component>> \o listing
    /\ UNCHANGED counts
    /\ UNCHANGED notRates

funnel_rates == Compute("funnel", FunnelRates(counts))
ads_rates == Compute("ads", AdsRates(counts))
appointment_rates == Compute("appointments", AppointmentRates(counts))
join_rates == Compute("join", CombinedRates(counts))
summary_rates == Compute("summary", FleetRates(counts))

IdleRates ==
    /\ counts = <<>>
    /\ rates = <<>>

InputRates ==
    /\ counts \in [1..6 -> 0..MaxCount]
    /\ rates = <<>>

NextRates ==
    \/ funnel_rates
    \/ ads_rates
    \/ appointment_rates
    \/ join_rates
    \/ summary_rates

----------------------------------------------------------------------------
(* The batches: one coroutine per selected center, run by asyncio.gather   *)

\* Bound of the batch model.
MaxCenters == 3       \* centers of the configuration

\* config.CENTERS (static configuration, not part of the sources): the
\* centers, some without an ads account, some with a second calendar.
CENTERS ==
    [i \in 1..MaxCenters |->
        [centerName |-> <<"Paris Centre", "Lyon", "Nice", "Lille", "Metz">>[i],
         city |-> <<"Paris", "Lyon", "Nice", "Lille", "Metz">>[i],
         pipelineName |-> "RDV",
         businessId |-> IF i % 2 = 0 THEN 0 ELSE 100 + i,
         calendarId |-> 10 + i,
         calendarId2 |-> IF i % 2 = 1 THEN 20 + i ELSE 0]]

\* The selections of the sidebar: any centers in the order of the
\* configuration, or the first two in the opposite order.
Reverse(seq) == [i \in DOMAIN seq |-> seq[Len(seq) + 1 - i]]

Selections ==
    LET names(S) == SelectSeq([i \in DOMAIN CENTERS |-> CENTERS[i].centerName],
                              LAMBDA n : n \in S)
        all == {names({CENTERS[i].centerName : i \in I}) : I \in SUBSET DOMAIN CENTERS}
    IN  all \cup {Reverse(names({CENTERS[i].centerName : i \in 1..2}))}

\* [c for c in CENTERS if c['centerName'] in selected_center_names]
selected_centers ==
    SelectSeq(CENTERS, LAMBDA c : c.centerName \in Range(selected_center_names))

\* centerName and city of the center, and the fields of body.
CenterRecord(center, body) ==
    [centerName |-> center.centerName, city |-> center.city] @@ body

\* A slip: a failed page discards what the pages before it gave.
ItemsDroppedOnFailure(run) ==
    IF \E i \in DOMAIN run : run[i].kind \in {"non200", "transport"} THEN <<>>
    ELSE IF run = <<>> THEN <<>>
    ELSE Head(run).opportunities
         \o (IF Len(run) > 1 THEN run[2].opportunities ELSE <<>>)

RECURSIVE ItemsFetched(_)
\* What fetch_all_opportunities returns when the server answers its requests
\* with the responses of run, in order (the while loop, run to its end).
ItemsFetched(run) ==
    IF run = <<>> THEN <<>>
    ELSE LET resp == Head(run)
         IN  IF resp.kind = "ok" /\ resp.nextPageUrl
             THEN resp.opportunities \o ItemsFetched(Tail(run))
             ELSE IF resp.kind \in {"ok", "badmeta"} THEN resp.opportunities
             ELSE <<>>

\* The conversations a center's opportunity fetch may have with the CRM.
RunChoices ==
    LET in(stage) == Opp(stage, start_datetime, end_datetime)
        page1 == <<in(2), in(1)>>
        page2 == <<in(5), in(9)>>
    IN  {<<Response("ok", page1, TRUE), Response("ok", page2, FALSE)>>,
         <<Response("ok", page1, TRUE), Response("non200", <<>>, FALSE)>>,
         <<Response("transport", <<>>, FALSE)>>,
         <<Response("ok", <<Opp(2, Malformed, Malformed)>>, FALSE)>>}

\* The answers to the pipeline lookup: a status other than 200, no answer,
\* a list without the center's pipeline, a list with it.
LookupChoices == {"non200", "transport", "notfound", "found"}

\* What a coroutine gives when an exception escapes it.
Raised == [raised |-> TRUE]

\* A slip: a failed lookup raises instead of returning an error record.
LookupFailureRaises(center, error) == Raised

\* return {'centerName': ..., 'city': ..., 'error': ...}
LookupFailure(center, error) == CenterRecord(center, [error |-> error])

\* get_center_stats_base up to the lookup of the target pipeline: the record
\* it returns at once, or NoResult when it goes on to fetch opportunities.
PipelineLookup(center, answer) ==
    CASE answer = "non200" -> LookupFailure(center, "Failed to fetch pipelines")
      [] answer = "transport" -> LookupFailure(center, "connection error")
      [] answer = "notfound" -> LookupFailure(center, "Pipeline not found")
      [] OTHER -> NoResult

\* A slip: the exception of a timestamp that does not parse escapes.
StatsOfRunUncaught(center, run, field) ==
    IF ParseRaises(ItemsFetched(run), field) THEN Raised
    ELSE CenterRecord(center, [pipeline |-> center.pipelineName]
                              @@ CenterStats(ItemsFetched(run), field))

\* get_center_stats_base from the fetch of the opportunities on.
StatsOfRun(center, run, field) ==
    LET body == CenterStats(ItemsFetched(run), field)
    IN  IF "error" \in DOMAIN body THEN CenterRecord(center, body)
        ELSE CenterRecord(center, [pipeline |-> center.pipelineName] @@ body)

\* The insights answers a center's ads fetch may get.
MetaChoices ==
    {[kind |-> "ok",
      insights |-> [basics |-> Basics(6, 7, 3, 4, 0),
                    conversions |-> <<Entry("schedule_total", 2)>>,
                    actions |-> <<Entry("link_click", 2)>>,
                    has_video |-> FALSE, video |-> <<>>]],
     [kind |-> "non200", insights |-> EmptyInsights]}

\* get_center_meta_stats: no request without a business id.
\* A slip: the insights are asked for whatever the business id.
MetaStatsAsksAnyway(center, resp) ==
    CenterRecord(center, [businessId |-> center.businessId,
                          metrics |-> MetaMetrics(resp)])

MetaStats(center, resp) ==
    IF center.businessId = 0
    THEN CenterRecord(center, [businessId |-> 0,
                               metrics |-> ZeroMetrics("No business ID configured")])
    ELSE CenterRecord(center, [businessId |-> center.businessId,
                               metrics |-> MetaMetrics(resp)])

\* An appointment: the day of its startTime (Absent: none) and its status
\* ("": none).
Appointment(day, status) == [startTime |-> day, appointmentStatus |-> status]

\* The answers of the appointment endpoint for one calendar: a list, a status
\* other than 200, no answer, or a body whose "appointments" is null.
CalendarChoices ==
    {[kind |-> "ok",
      appointments |-> <<Appointment(1, "Confirmed"), Appointment(1, "showed"),
                         Appointment(2, "noshow"), Appointment(2, "cancelled"),
                         Appointment(Absent, "cancelled"), Appointment(Absent, "")>>],
     [kind |-> "transport", appointments |-> <<>>],
     [kind |-> "non200", appointments |-> <<>>],
     [kind |-> "null", appointments |-> <<>>]}

\* fetch_appointments_from_calendar: the list, [] on a failure.
AppointmentsFrom(answer) == IF answer.kind = "ok" THEN answer.appointments ELSE <<>>

\* A slip: an appointment a calendar lists again is not taken again.
ExtendDeduplicated(all_appointments, appointments) ==
    all_appointments
    \o SelectSeq(appointments,
                 LAMBDA a : \A k \in DOMAIN all_appointments : all_appointments[k] # a)

\* all_appointments.extend(appointments)
Extend(all_appointments, appointments) == all_appointments \o appointments

\* all_appointments.extend(None) raises TypeError.
ExtendRaises(answer) == answer.kind = "null"

\* str.lower on the statuses and on the characters of the model.
lower(status) ==
    CASE status = "Confirmed" -> "confirmed"
      [] status = "P" -> "p"
      [] status = "A" -> "a"
      [] status = "L" -> "l"
      [] status = "Y" -> "y"
      [] OTHER -> status

\* (appointmentStatus or 'unknown').lower()
StatusOf(appointment) ==
    lower(IF appointment.appointmentStatus = "" THEN "unknown"
          ELSE appointment.appointmentStatus)

\* merge_appointments_by_day: day -> (status or "total") -> count; the day
\* Absent is the key 'unknown' of get_date_from_iso.
merge_appointments_by_day(appointments) ==
    LET days == {appointments[i].startTime : i \in DOMAIN appointments}
        on(day) == SelectSeq(appointments, LAMBDA a : a.startTime = day)
        statuses(day) == {StatusOf(on(day)[i]) : i \in DOMAIN on(day)}
    IN  [day \in days |->
            [k \in statuses(day) \cup {"total"} |->
                IF k = "total" THEN Len(on(day))
                ELSE Count(on(day), LAMBDA a : StatusOf(a) = k)]]

\* fetch_appointments, once both calendars have answered.
AppointmentsResult(center, all_appointments) ==
    CenterRecord(center,
        [calendarId |-> center.calendarId, calendarId2 |-> center.calendarId2,
         appointmentsByDay |-> merge_appointments_by_day(all_appointments),
         totalAppointments |-> Len(all_appointments)])

RECURSIVE TotalOf(_, _, _)
\* sum(day_data.get(status, 0) for day_data in appointmentsByDay.values())
TotalOf(byDay, days, status) ==
    IF days = {} THEN 0
    ELSE LET d == CHOOSE x \in days : TRUE
         IN  (IF status \in DOMAIN byDay[d] THEN byDay[d][status] ELSE 0)
             + TotalOf(byDay, days \ {d}, status)

\* The cumulative calculation fetch_appointments_for_centers adds to a result.
WithTotals(center_result) ==
    LET byDay == center_result.appointmentsByDay
        total(status) == TotalOf(byDay, DOMAIN byDay, status)
        statuses == UNION {DOMAIN byDay[d] : d \in DOMAIN byDay} \ {"total"}
        total_appointments == total("total")
    IN  [totals |-> [k \in statuses |-> total(k)],
         ratios |-> AppointmentRatios(total("confirmed"), total("cancelled"),
                                      total("noshow"), total("showed"), total_appointments)]
        @@ [center_result EXCEPT !.totalAppointments = total_appointments]

Task(pc, result, answers) == [pc |-> pc, result |-> result, answers |-> answers]

Running == returned.state = "running"

DateFieldOf(kind) == IF kind = "created" THEN "createdAt" ELSE "updatedAt"

\* Task i completes: with a result, which gather keeps in the slot of the
\* task, or with an exception.
Finish(i, result, answers) ==
    IF result = Raised
    THEN /\ tasks' = [tasks EXCEPT ![i] = Task("raised", result, answers)]
         /\ UNCHANGED completed
    ELSE /\ tasks' = [tasks EXCEPT ![i] = Task("done", result, answers)]
         /\ completed' = Append(completed, i)

\* A funnel task gets the answer to its pipeline lookup.
PipelinesAnswered(i) ==
    /\ Running /\ batch \in {"updated", "created"}
    /\ tasks[i].pc = "pipelines"
    /\ \E answer \in LookupChoices :
        LET result == PipelineLookup(selected_centers[i], answer)
        IN  IF result = NoResult
            THEN /\ tasks' = [tasks EXCEPT ![i] = Task("opportunities", NoResult, <<answer>>)]
                 /\ UNCHANGED completed
            ELSE Finish(i, result, <<answer>>)
    /\ UNCHANGED <<batch, selected_center_names, returned>>
    /\ UNCHANGED notBatch

\* A funnel task has fetched its opportunities: it aggregates and returns.
OpportunitiesFetched(i) ==
    /\ Running /\ batch \in {"updated", "created"}
    /\ tasks[i].pc = "opportunities"
    /\ \E run \in RunChoices :
        Finish(i, StatsOfRun(selected_centers[i], run, DateFieldOf(batch)),
               Append(tasks[i].answers, run))
    /\ UNCHANGED <<batch, selected_center_names, returned>>
    /\ UNCHANGED notBatch

\* An ads task returns: with the answer of the insights endpoint, or at once
\* for a center without a business id.
InsightsAnswered(i) ==
    /\ Running /\ batch = "meta"
    /\ tasks[i].pc = "insights"
    /\ \E resp \in MetaChoices :
        /\ selected_centers[i].businessId = 0 => resp.kind = "non200"
        /\ Finish(i, MetaStats(selected_centers[i], resp),
                  IF selected_centers[i].businessId = 0 THEN <<>> ELSE <<resp>>)
    /\ UNCHANGED <<batch, selected_center_names, returned>>
    /\ UNCHANGED notBatch

\* An appointment task gets the answer for one of its calendars.
CalendarAnswered(i) ==
    /\ Running /\ batch = "appointments"
    /\ tasks[i].pc \in {"calendar1", "calendar2"}
    /\ \E answer \in CalendarChoices :
        LET answers == Append(tasks[i].answers, answer)
            all_appointments == Extend(tasks[i].result, AppointmentsFrom(answer))
        IN  IF ExtendRaises(answer)
            THEN Finish(i, Raised, answers)
            ELSE IF tasks[i].pc = "calendar1" /\ selected_centers[i].calendarId2 # 0
            THEN /\ tasks' = [tasks EXCEPT ![i] = Task("calendar2", all_appointments, answers)]
                 /\ UNCHANGED completed
            ELSE Finish(i, AppointmentsResult(selected_centers[i], all_appointments), answers)
    /\ UNCHANGED <<batch, selected_center_names, returned>>
    /\ UNCHANGED notBatch

\* A slip: the batch returns as soon as one task has completed.
FirstCompleted == \E i \in DOMAIN tasks : tasks[i].pc = "done"

\* await asyncio.gather(...): every awaitable has completed.
AllCompleted == \A i \in DOMAIN tasks : tasks[i].pc = "done"

\* A slip: the results in the order the tasks completed.
InCompletionOrder == [k \in DOMAIN completed |-> tasks[completed[k]].result]

\* The list asyncio.gather returns: the results in the order of the awaitables.
Gathered == [i \in DOMAIN tasks |-> tasks[i].result]

\* _execute_async_tasks returns, and the batch function with it
\* (fetch_appointments_for_centers after its cumulative calculation).
BatchReturns ==
    /\ Running
    /\ AllCompleted
    /\ returned' =
        [state |-> "returned",
         results |-> IF batch = "appointments"
                     THEN [i \in DOMAIN Gathered |-> WithTotals(Gathered[i])]
                     ELSE Gathered]
    /\ UNCHANGED <<batch, selected_center_names, tasks, completed>>
    /\ UNCHANGED notBatch

\* A task raised: gather propagates the exception and the batch call raises.
BatchRaises ==
    /\ Running
    /\ \E i \in DOMAIN tasks : tasks[i].pc = "raised"
    /\ returned' = [state |-> "raised", results |-> <<>>]
    /\ UNCHANGED <<batch, selected_center_names, tasks, completed>>
    /\ UNCHANGED notBatch

FirstPc(kind) ==
    CASE kind \in {"updated", "created"} -> "pipelines"
      [] kind = "meta" -> "insights"
      [] OTHER -> "calendar1"

IdleBatch ==
    /\ batch = ""
    /\ selected_center_names = <<>>
    /\ tasks = <<>>
    /\ completed = <<>>
    /\ returned = [state |-> "idle", results |-> <<>>]

\* A batch function is called with a selection of center names: gather
\* starts one task per selected center.
InputBatch ==
    /\ batch \in {"updated", "created", "meta", "appointments"}
    /\ selected_center_names \in Selections
    /\ tasks = [i \in DOMAIN selected_centers |->
                   Task(FirstPc(batch), IF batch = "appointments" THEN <<>> ELSE NoResult, <<>>)]
    /\ completed = <<>>
    /\ returned = [state |-> "running", results |-> <<>>]

NextBatch ==
    \/ \E i \in DOMAIN tasks : PipelinesAnswered(i)
    \/ \E i \in DOMAIN tasks : OpportunitiesFetched(i)
    \/ \E i \in DOMAIN tasks : InsightsAnswered(i)
    \/ \E i \in DOMAIN tasks : CalendarAnswered(i)
    \/ BatchReturns
    \/ BatchRaises

----------------------------------------------------------------------------
(* fetch_combined_performance_data and get_performance_summary            *)

\* Bound of the join model.
MaxJoined == 2        \* records on each side of the join

\* Center names of the two systems, as sequences of characters.
NameChoices ==
    <<  <<"P", "a">>, <<" ", "p", "A", " ">>, <<"L", "y">>, <<"l", "Y", " ">>  >>

RECURSIVE lstrip(_)
lstrip(name) == IF name # <<>> /\ Head(name) = " " THEN lstrip(Tail(name)) ELSE name

RECURSIVE rstrip(_)
rstrip(name) ==
    IF name # <<>> /\ name[Len(name)] = " " THEN rstrip(SubSeq(name, 1, Len(name) - 1))
    ELSE name

\* name.strip().lower()
center_key(name) == LET t == rstrip(lstrip(name)) IN [i \in DOMAIN t |-> lower(t[i])]

NamedCenter(name) ==
    [centerName |-> name, city |-> "Paris", pipelineName |-> "RDV", businessId |-> 101,
     calendarId |-> 11, calendarId2 |-> 0]

\* The records fetch_centers_data_created may hold for a center: metrics, or
\* the error record of a failed pipeline lookup.
CreatedChoices ==
    LET ok(name) ==
            StatsOfRun(NamedCenter(name),
                       <<Response("ok", <<Opp(2, start_datetime, start_datetime),
                                          Opp(1, start_datetime, start_datetime),
                                          Opp(5, start_datetime, start_datetime)>>, FALSE)>>,
                       "createdAt")
        failed(name) == LookupFailure(NamedCenter(name), "Pipeline not found")
    IN  <<ok(NameChoices[1]), failed(NameChoices[1]), ok(NameChoices[2]),
          ok(NameChoices[4]), failed(NameChoices[4])>>

AdsRow(spend, cpm, ctr, nleads) ==
    [kind |-> "ok",
     insights |-> [basics |-> Basics(spend, cpm, ctr, 50, 10),
                   conversions |-> <<Entry("schedule_total", nleads)>>,
                   actions |-> <<>>, has_video |-> TRUE,
                   video |-> <<Entry("video_view", 5)>>]]

\* A center whose businessId is missing, empty or 'None'.
WithoutAdsAccount(center) == [center EXCEPT !.businessId = 0]

\* The records fetch_meta_metrics_for_centers may hold for a center: two
\* accounts that spent, and a failed fetch; and the record of a center
\* without ads account.
MetaRecordChoices ==
    [i \in 1..(3 * Len(NameChoices)) |->
        LET center == NamedCenter(NameChoices[(i + 2) \div 3])
        IN  CASE i % 3 = 1 -> MetaStats(center, AdsRow(100, 5, 2, 3))
              [] i % 3 = 2 -> MetaStats(center, AdsRow(300, 7, 4, 4))
              [] OTHER -> MetaStats(center, [kind |-> "non200", insights |-> EmptyInsights])]
    \o <<MetaStats(WithoutAdsAccount(NamedCenter(NameChoices[3])), AdsRow(100, 5, 2, 3))>>

\* The lists of at most MaxJoined records of choices, each multiset in one order.
ListsOf(choices) ==
    {[i \in DOMAIN idx |-> choices[idx[i]]] :
        idx \in UNION {NonDecreasing(k, Len(choices)) : k \in 0..MaxJoined}}

\* meta_data_dict.get(center_key): the last record of the key, NoResult for None.
meta_data_dict(key) ==
    LET hits == {i \in DOMAIN meta_data : center_key(meta_data[i].centerName) = key}
    IN  IF hits = {} THEN NoResult
        ELSE meta_data[CHOOSE i \in hits : \A j \in hits : j <= i]

\* A slip: the lookup by the name as it is.
ExactNameKey(name) == name

\* The key a created record is looked up by.
LookupKey(name) == center_key(name)

\* {}
EmptyDict == [field \in {} |-> 0]

\* d.get(field, 0) on a record: 0 for a field it lacks.
Get(d, field) == IF field \in DOMAIN d THEN d[field] ELSE 0

\* d.get(field, 0) for a field that holds a rate.
GetRate(d, field) == IF field \in DOMAIN d THEN d[field] ELSE Zero

\* A slip: a failed ads fetch also blanks the funnel side.
CreatedBlankedOnMetaError(created_center, meta_center) ==
    IF meta_center # NoResult /\ "error" \in DOMAIN meta_center.metrics THEN EmptyDict
    ELSE IF "metrics" \in DOMAIN created_center THEN created_center.metrics ELSE EmptyDict

\* created_center.get('metrics', {})
CreatedMetrics(created_center, meta_center) ==
    IF "metrics" \in DOMAIN created_center THEN created_center.metrics ELSE EmptyDict

\* One pass of the loop of fetch_combined_performance_data.
CombinedRecord(created_center, meta_center) ==
    LET created_metrics == CreatedMetrics(created_center, meta_center)
        metrics == IF meta_center # NoResult THEN meta_center.metrics ELSE EmptyDict
        spend == Get(metrics, "spend")
        meta_leads == Get(metrics, "leads")
        details == IF "details" \in DOMAIN created_metrics THEN created_metrics.details
                   ELSE EmptyDict
        concretise == Get(details, "concretise")
        total_created == Get(created_metrics, "totalRDVPlanifies")
        tenths(field) == Rat(Get(created_metrics, field), 10)
    IN  [centerName |-> created_center.centerName,
         city |-> created_center.city,
         meta_leads |-> meta_leads,
         spend |-> spend,
         cpm |-> Get(metrics, "cpm"),
         ctr |-> Get(metrics, "ctr"),
         cpr |-> GetRate(metrics, "cpr"),
         impressions |-> Get(metrics, "impressions"),
         inline_link_clicks |-> Get(metrics, "inline_link_clicks"),
         video_30_sec_watched |-> Get(metrics, "video_30_sec_watched"),
         hook_rate |-> GetRate(metrics, "hook_rate"),
         meta_conversion_rate |-> GetRate(metrics, "conversion_rate"),
         total_created |-> total_created,
         concretise |-> concretise,
         confirmation_rate |-> tenths("confirmationRateNum"),
         conversion_rate |-> tenths("conversionRateNum"),
         cancellation_rate |-> tenths("cancellationRateNum"),
         no_show_rate |-> tenths("noShowRateNum"),
         has_meta_error |-> "error" \in DOMAIN metrics,
         has_created_error |-> "error" \in DOMAIN created_center,
         meta_error |-> IF "error" \in DOMAIN metrics THEN metrics.error ELSE "",
         created_error |-> IF "error" \in DOMAIN created_center THEN created_center.error ELSE ""]
        @@ JoinRates(spend, meta_leads, concretise, total_created)

\* The list fetch_combined_performance_data returns: one record per created
\* record, in that order.
Combined ==
    [i \in DOMAIN created_data |->
        CombinedRecord(created_data[i], meta_data_dict(LookupKey(created_data[i].centerName)))]

\* A slip: the flagged records are summed too.
EveryCenterValid(combined_data) == combined_data

\* [c for c in combined_data if not has_meta_error and not has_created_error]
valid_centers(combined_data) ==
    SelectSeq(combined_data, LAMBDA c : ~c.has_meta_error /\ ~c.has_created_error)

RECURSIVE SumSeq(_)
SumSeq(numbers) ==
    IF numbers = <<>> THEN Zero ELSE RatAdd(Head(numbers), SumSeq(Tail(numbers)))

\* sum(term(c) for c in centers)
Sum(centers, term(_)) == SumSeq([i \in DOMAIN centers |-> term(centers[i])])

\* A slip: the plain sum of the rate, which makes the average unweighted.
PlainTerm(c, rate) == FromInt(rate)

\* One term of total_cpm, total_ctr: rate * spend.
WeightedTerm(c, rate) == RatMul(FromInt(rate), FromInt(c.spend))

\* get_performance_summary.
PerformanceSummary(combined_data) ==
    IF combined_data = <<>> THEN EmptyDict
    ELSE LET valid == valid_centers(combined_data)
             spent == SelectSeq(valid, LAMBDA c : c.spend > 0)
             n == Len(valid)
             t == [spend |-> Sum(valid, LAMBDA c : FromInt(c.spend)),
                   meta_leads |-> Sum(valid, LAMBDA c : FromInt(c.meta_leads)),
                   created |-> Sum(valid, LAMBDA c : FromInt(c.total_created)),
                   concretise |-> Sum(valid, LAMBDA c : FromInt(c.concretise)),
                   impressions |-> Sum(valid, LAMBDA c : FromInt(c.impressions)),
                   clicks |-> Sum(valid, LAMBDA c : FromInt(c.inline_link_clicks)),
                   video_30s |-> Sum(valid, LAMBDA c : FromInt(c.video_30_sec_watched)),
                   cpm |-> Sum(spent, LAMBDA c : WeightedTerm(c, c.cpm)),
                   ctr |-> Sum(spent, LAMBDA c : WeightedTerm(c, c.ctr)),
                   cpr |-> Sum(spent, LAMBDA c : RatMul(c.cpr, FromInt(c.spend))),
                   confirmation_rate |-> Sum(valid, LAMBDA c : c.confirmation_rate),
                   cancellation_rate |-> Sum(valid, LAMBDA c : c.cancellation_rate),
                   no_show_rate |-> Sum(valid, LAMBDA c : c.no_show_rate)]
         IN  IF valid = <<>> THEN [error |-> "No valid data available"]
             ELSE [total_centers |-> n,
                   total_spend |-> t.spend,
                   total_impressions |-> t.impressions,
                   total_clicks |-> t.clicks,
                   total_video_30s |-> t.video_30s,
                   total_meta_leads |-> t.meta_leads,
                   total_created |-> t.created,
                   total_concretise |-> t.concretise]
                  @@ SummaryRates(t, n)

fetch_combined_performance_data ==
    /\ ppc = "join"
    /\ combined_results' = Combined
    /\ ppc' = "summary"
    /\ UNCHANGED <<created_data, meta_data, summary>>
    /\ UNCHANGED notPerf

get_performance_summary ==
    /\ ppc = "summary"
    /\ summary' = PerformanceSummary(combined_results)
    /\ ppc' = "done"
    /\ UNCHANGED <<created_data, meta_data, combined_results>>
    /\ UNCHANGED notPerf

IdlePerf ==
    /\ created_data = <<>>
    /\ meta_data = <<>>
    /\ ppc = "idle"
    /\ combined_results = <<>>
    /\ summary = NoResult

InputPerf ==
    /\ created_data \in ListsOf(CreatedChoices)
    /\ meta_data \in ListsOf(MetaRecordChoices)
    /\ ppc = "join"
    /\ combined_results = <<>>
    /\ summary = NoResult

NextPerf ==
    \/ fetch_combined_performance_data
    \/ get_performance_summary

----------------------------------------------------------------------------
(* The dashboard script (src/main.py): one action per stretch of a run     *)

\* Bound of the session model.
MaxRuns == 4          \* runs the user starts (reruns of st.rerun come on top)

\* st.secrets["auth"]: the configured credentials.
username == "admin"
password == "s3cret"

\* What a visitor may type into the login form.
UserChoices == {"admin", "guest", ""}
PasswordChoices == {"s3cret", "wrong", ""}

\* The pages of the sidebar's selectbox.
Pages ==
    {"Performance Overview", "Benchmark Analysis", "City Comparison",
     "Detailed Metrics", "Stage Analysis", "Trend Analysis",
     "Created Leads Analysis", "Appointment Status Analysis", "Meta Ads Metrics"}

\* The first fetch the show function of a page issues (benchmark_analysis is
\* not among the sources; it is given the funnel fetch of its sibling pages).
FetchOf(p) ==
    CASE p = "Created Leads Analysis" -> "fetch_centers_data_created"
      [] p = "Appointment Status Analysis" -> "fetch_appointments_for_centers"
      [] p = "Meta Ads Metrics" -> "fetch_meta_metrics_for_centers"
      [] OTHER -> "fetch_centers_data"

Event(kind, user, pwd) == [kind |-> kind, user |-> user, pwd |-> pwd]

\* st.rerun(): the run ends and a new one starts with no widget triggered.
Rerun == Event("rerun", "", "")

\* The widgets the last run left on the screen, and what acting on them sends.
EventChoices ==
    CASE rendered = "nothing" -> {Event("open", "", "")}
      [] rendered = "login_form" ->
            {Event("submit", u, w) : u \in UserChoices, w \in PasswordChoices}
      [] rendered = "dashboard" -> {Event("logout", "", ""), Event("widget", "", "")}
      [] OTHER -> {}

\* The user acts on a widget (or opens the app): the script runs from its top.
\* A change of a sidebar widget comes with the widget's new value.
UserActs ==
    /\ mpc = "waiting"
    /\ nruns < MaxRuns
    /\ \E e \in EventChoices :
        /\ event' = e
        /\ IF e.kind = "widget"
           THEN \E p \in Pages, some \in BOOLEAN : current_page' = p /\ centers_selected' = some
           ELSE UNCHANGED <<current_page, centers_selected>>
    /\ mpc' = "check_login"
    /\ nruns' = nruns + 1
    /\ UNCHANGED <<configured, logged_in, rendered, shown, fetch_issued, ndispatched>>
    /\ UNCHANGED notMain

\* A slip: the password is not compared.
UsernameMatches(user, pwd) == user = username

\* user == username and pwd == password
CredentialsMatch(user, pwd) == user = username /\ pwd = password

\* check_login without credentials in the secrets: st.error, st.stop.
SecretsMissing ==
    /\ mpc = "check_login"
    /\ ~configured
    /\ rendered' = "error"
    /\ mpc' = "waiting"
    /\ UNCHANGED <<configured, logged_in, event, current_page, centers_selected, shown,
                   fetch_issued, ndispatched, nruns>>
    /\ UNCHANGED notMain

\* check_login, not logged in, the form submitted with the credentials:
\* logged_in = True, st.rerun.
LoginSucceeds ==
    /\ mpc = "check_login"
    /\ configured /\ ~logged_in
    /\ event.kind = "submit" /\ CredentialsMatch(event.user, event.pwd)
    /\ logged_in' = TRUE
    /\ event' = Rerun
    /\ mpc' = "check_login"
    /\ UNCHANGED <<configured, rendered, current_page, centers_selected, shown, fetch_issued,
                   ndispatched, nruns>>
    /\ UNCHANGED notMain

\* check_login, not logged in, otherwise: the form is drawn (with st.error
\* after a wrong submission), then st.stop.
LoginFormShown ==
    /\ mpc = "check_login"
    /\ configured /\ ~logged_in
    /\ ~(event.kind = "submit" /\ CredentialsMatch(event.user, event.pwd))
    /\ rendered' = "login_form"
    /\ mpc' = "waiting"
    /\ UNCHANGED <<configured, logged_in, event, current_page, centers_selected, shown,
                   fetch_issued, ndispatched, nruns>>
    /\ UNCHANGED notMain

\* check_login, logged in: it returns and the script goes on to the header.
LoginPassed ==
    /\ mpc = "check_login"
    /\ configured /\ logged_in
    /\ mpc' = "header"
    /\ UNCHANGED <<configured, logged_in, event, rendered, current_page, centers_selected,
                   shown, fetch_issued, ndispatched, nruns>>
    /\ UNCHANGED notMain

\* logout(), the button clicked: logged_in = False, st.rerun.
logout ==
    /\ mpc = "header"
    /\ event.kind = "logout"
    /\ logged_in' = FALSE
    /\ event' = Rerun
    /\ mpc' = "check_login"
    /\ UNCHANGED <<configured, rendered, current_page, centers_selected, shown, fetch_issued,
                   ndispatched, nruns>>
    /\ UNCHANGED notMain

\* logout(), the button not clicked: the sidebar is drawn, routing is next.
HeaderDrawn ==
    /\ mpc = "header"
    /\ event.kind # "logout"
    /\ mpc' = "routing"
    /\ UNCHANGED <<configured, logged_in, event, rendered, current_page, centers_selected,
                   shown, fetch_issued, ndispatched, nruns>>
    /\ UNCHANGED notMain

\* if not selected_centers: st.warning, st.stop.
NoCenterSelected ==
    /\ mpc = "routing"
    /\ ~centers_selected
    /\ rendered' = "dashboard"
    /\ mpc' = "waiting"
    /\ UNCHANGED <<configured, logged_in, event, current_page, centers_selected, shown,
                   fetch_issued, ndispatched, nruns>>
    /\ UNCHANGED notMain

\* The if / elif chain: the show function of the chosen page runs, and
\* issues its fetch.
PageDispatched ==
    /\ mpc = "routing"
    /\ centers_selected
    /\ shown' = current_page
    /\ fetch_issued' = FetchOf(current_page)
    /\ ndispatched' = ndispatched + 1
    /\ rendered' = "dashboard"
    /\ mpc' = "waiting"
    /\ UNCHANGED <<configured, logged_in, event, current_page, centers_selected, nruns>>
    /\ UNCHANGED notMain

\* A session before its first run: the widgets at their defaults.
IdleMain ==
    /\ configured = TRUE
    /\ logged_in = FALSE
    /\ mpc = "waiting"
    /\ event = Rerun
    /\ rendered = "nothing"
    /\ current_page = "Performance Overview"
    /\ centers_selected = TRUE
    /\ shown = ""
    /\ fetch_issued = ""
    /\ ndispatched = 0
    /\ nruns = 0

InputMain ==
    /\ configured \in BOOLEAN
    /\ logged_in = FALSE
    /\ mpc = "waiting"
    /\ event = Rerun
    /\ rendered = "nothing"
    /\ current_page = "Performance Overview"
    /\ centers_selected = TRUE
    /\ shown = ""
    /\ fetch_issued = ""
    /\ ndispatched = 0
    /\ nruns = 0

NextMain ==
    \/ UserActs
    \/ SecretsMissing
    \/ LoginSucceeds
    \/ LoginFormShown
    \/ LoginPassed
    \/ logout
    \/ HeaderDrawn
    \/ NoCenterSelected
    \/ PageDispatched

----------------------------------------------------------------------------
(* Specifications: one per component *)

InitFetch ==
    IdleFetch /\ IdleFunnel /\ IdleMeta /\ IdleRates /\ IdleBatch /\ IdlePerf
    /\ IdleMain

SpecFetch == InitFetch /\ [][NextFetch]_vars

\* The event loop keeps running the coroutine: a loop iteration that can be
\* taken is eventually taken.  Nothing is assumed of the server.
FairSpecFetch == SpecFetch /\ WF_vars(NextFetch)

InitFunnel ==
    InputFunnel /\ IdleFetch /\ IdleMeta /\ IdleRates /\ IdleBatch /\ IdlePerf
    /\ IdleMain

SpecFunnel == InitFunnel /\ [][NextFunnel]_vars

InitMeta ==
    InputMeta /\ IdleFetch /\ IdleFunnel /\ IdleRates /\ IdleBatch /\ IdlePerf
    /\ IdleMain

SpecMeta == InitMeta /\ [][NextMeta]_vars

InitRates ==
    InputRates /\ IdleFetch /\ IdleFunnel /\ IdleMeta /\ IdleBatch /\ IdlePerf
    /\ IdleMain

SpecRates == InitRates /\ [][NextRates]_vars

InitBatch ==
    InputBatch /\ IdleFetch /\ IdleFunnel /\ IdleMeta /\ IdleRates /\ IdlePerf
    /\ IdleMain

SpecBatch == InitBatch /\ [][NextBatch]_vars

InitPerf ==
    InputPerf /\ IdleFetch /\ IdleFunnel /\ IdleMeta /\ IdleRates /\ IdleBatch
    /\ IdleMain

InitMain ==
    InputMain /\ IdleFetch /\ IdleFunnel /\ IdleMeta /\ IdleRates /\ IdleBatch
    /\ IdlePerf

SpecMain == InitMain /\ [][NextMain]_vars

SpecPerf == InitPerf /\ [][NextPerf]_vars

----------------------------------------------------------------------------
(* Properties of the funnel aggregation *)

OkStats == stats # NoResult /\ "metrics" \in DOMAIN stats

\* The positions of the fetched list that are dated inside the window and
\* whose canonical stage is in the set canons.
Dated(canons) ==
    {i \in DOMAIN all_opportunities :
        /\ InWindow(all_opportunities[i], date_field)
        /\ stageCanonical(all_opportunities[i]) \in canons}

NumberOf(canons) == Cardinality(Dated(canons))

AllCanon ==
    {"annule", "confirme", "pas_venu", "present", "concretise", "non_confirme",
     "non_qualifie", "sans_reponse", "unknown", EXCLUDED_STAGE_CANON}

\* r, in tenths of a percent, is n / d * 100 to the nearest tenth; 0 when d = 0.
IsPctOf(r, n, d) ==
    IF d = 0 THEN r = 0
    ELSE LET diff == r * d - 1000 * n
         IN  2 * (IF diff < 0 THEN 0 - diff ELSE diff) <= d

StagesFetched == [i \in DOMAIN all_opportunities |-> stageCanonical(all_opportunities[i])]

Scenario ==
    /\ StagesFetched = <<"confirme", "present", "concretise", "annule">>
    /\ \A i \in DOMAIN all_opportunities : InWindow(all_opportunities[i], date_field)

\* C1: the funnel result has rdvConfirmes = confirme + pas_venu + present +
\* concretise and showUp = present + concretise over the in-window,
\* non-excluded opportunities, and its five numeric rates are the percentages
\* of section 4.3 rounded to one decimal; the stages confirme, present,
\* concretise, annule give 4, 3, 2 and 75.0, 25.0, 66.7, 50.0.
C1_FunnelRates ==
    OkStats =>
        LET m == stats.metrics
            total == NumberOf(AllCanon \ {EXCLUDED_STAGE_CANON})
            conf == NumberOf({"confirme", "pas_venu", "present", "concretise"})
            show == NumberOf({"present", "concretise"})
        IN  /\ m.totalRDVPlanifies = total
            /\ m.rdvConfirmes = conf
            /\ m.showUp = show
            /\ IsPctOf(m.confirmationRateNum, conf, total)
            /\ IsPctOf(m.cancellationRateNum, NumberOf({"annule"}), total)
            /\ IsPctOf(m.noShowRateNum, NumberOf({"pas_venu"}), conf)
            /\ IsPctOf(m.presenceRateNum, show, conf)
            /\ IsPctOf(m.conversionRateNum, NumberOf({"concretise"}), show)
            /\ Scenario =>
                /\ m.totalRDVPlanifies = 4 /\ m.rdvConfirmes = 3 /\ m.showUp = 2
                /\ m.confirmationRateNum = 750 /\ m.cancellationRateNum = 250
                /\ m.presenceRateNum = 667 /\ m.conversionRateNum = 500

C1_Witness == OkStats /\ Scenario /\ stats.metrics.presenceRateNum = 667

NotExcluded(opp) == stageCanonical(opp) # EXCLUDED_STAGE_CANON

\* C2: records of the excluded stage count in none of totalRDVPlanifies, the
\* detail counters, rdvConfirmes, showUp or stageStats: the result is the
\* result of the same list without them.
C2_ExclusionInvariant ==
    OkStats =>
        /\ stats = CenterStats(SelectSeq(all_opportunities, NotExcluded), date_field)
        /\ stats.metrics.totalRDVPlanifies = NumberOf(AllCanon \ {EXCLUDED_STAGE_CANON})
        /\ EXCLUDED_STAGE_CANON \notin DOMAIN stats.stageStats

C2_Witness ==
    /\ OkStats
    /\ NumberOf({EXCLUDED_STAGE_CANON}) = 2
    /\ stats.metrics.totalRDVPlanifies = 2
    /\ stats.metrics.rdvConfirmes = 1

\* The date of an instant.
DayOf(t) == t \div TicksPerDay

\* The positions of the fetched list whose date field holds an instant of a
\* day from the start date to the end date, and whose stage is not excluded.
OnWindowDays ==
    {i \in DOMAIN all_opportunities :
        LET t == DateOf(all_opportunities[i], date_field)
        IN  /\ t > 0
            /\ StartDay <= DayOf(t) /\ DayOf(t) <= EndDay
            /\ NotExcluded(all_opportunities[i])}

Undated == {i \in DOMAIN all_opportunities : DateOf(all_opportunities[i], date_field) = Absent}

\* C23: an opportunity is counted exactly when its date field holds an
\* instant from 00:00:00 of the start date to the last instant of the end
\* date, both included; an absent or empty date field is not counted and
\* causes no error.
C23_ClosedWindow ==
    /\ OkStats =>
        /\ stats.metrics.totalRDVPlanifies = Cardinality(OnWindowDays)
        /\ Undated \cap OnWindowDays = {}
    /\ stats # NoResult /\ ~ParseRaises(all_opportunities, date_field) => OkStats

\* Three opportunities by updatedAt: one at the last instant of the end date
\* and one at the first instant of the start date, both counted; one at the
\* instant before the start, not counted; and a fourth with no updatedAt.
C23_Witness ==
    /\ OkStats /\ date_field = "updatedAt"
    /\ [i \in DOMAIN all_opportunities |-> all_opportunities[i].updatedAt]
         = <<end_datetime, start_datetime, start_datetime - 1, Absent>>
    /\ \A i \in DOMAIN all_opportunities : NotExcluded(all_opportunities[i])
    /\ stats.metrics.totalRDVPlanifies = 2

NamedCanon ==
    {"annule", "confirme", "pas_venu", "present", "concretise", "non_confirme",
     "non_qualifie", "sans_reponse"}

RECURSIVE SumOver(_, _)
\* The sum of the values of a counter record over a set of its keys.
SumOver(counter, keys) ==
    IF keys = {} THEN 0
    ELSE LET k == CHOOSE x \in keys : TRUE
         IN  counter[k] + SumOver(counter, keys \ {k})

\* C24: every in-window, non-excluded opportunity is in exactly one
\* stageStats bucket and in at most one named detail counter: stageStats sums
\* to totalRDVPlanifies, the eight detail counters plus the stageStats counts
\* of the other canonical values sum to totalRDVPlanifies too, and a record
\* of a non-named canonical value counts in the total and in no named counter.
C24_OneBucketEach ==
    OkStats =>
        LET m == stats.metrics
            buckets == stats.stageStats
            others == DOMAIN buckets \ NamedCanon
        IN  /\ SumOver(buckets, DOMAIN buckets) = m.totalRDVPlanifies
            /\ SumOver(m.details, DOMAIN m.details) + SumOver(buckets, others)
                  = m.totalRDVPlanifies
            /\ \A k \in DOMAIN buckets : buckets[k] = NumberOf({k})
            /\ SumOver(m.details, DOMAIN m.details) = NumberOf(NamedCanon)
            /\ m.totalRDVPlanifies = NumberOf(NamedCanon) + NumberOf({"unknown"})
            /\ NumberOf({"unknown"}) > 0 => buckets["unknown"] = NumberOf({"unknown"})

\* An unmapped stage id, a stage name outside the table and a confirmed one,
\* all in the window: a total of 3, one named counter, two in "unknown".
C24_Witness ==
    /\ OkStats
    /\ [i \in DOMAIN all_opportunities |-> all_opportunities[i].pipelineStageId] = <<2, 10, 0>>
    /\ stats.metrics.totalRDVPlanifies = 3
    /\ stats.metrics.details.confirme = 1
    /\ SumOver(stats.metrics.details, DOMAIN stats.metrics.details) = 1
    /\ stats.stageStats = [confirme |-> 1, unknown |-> 2]

\* A rate in tenths of a percent lies between 0 and 100.
IsPercentage(r) == 0 <= r /\ r <= 1000

\* C30: in every successful funnel result 0 <= showUp <= rdvConfirmes <=
\* totalRDVPlanifies, annule + rdvConfirmes <= totalRDVPlanifies, and each of
\* the five numeric rates lies between 0 and 100.
C30_FunnelBounds ==
    OkStats =>
        LET m == stats.metrics
        IN  /\ 0 <= m.showUp /\ m.showUp <= m.rdvConfirmes
            /\ m.rdvConfirmes <= m.totalRDVPlanifies
            /\ m.details.annule + m.rdvConfirmes <= m.totalRDVPlanifies
            /\ IsPercentage(m.confirmationRateNum)
            /\ IsPercentage(m.cancellationRateNum)
            /\ IsPercentage(m.noShowRateNum)
            /\ IsPercentage(m.presenceRateNum)
            /\ IsPercentage(m.conversionRateNum)

\* A no-show, an attendance that became a sale, a cancellation and a lead of
\* an unlisted stage: 1 <= 2 <= 4, 1 + 2 <= 4, rates 50, 25, 50, 50 and 100.
C30_Witness ==
    /\ OkStats
    /\ stats.metrics.totalRDVPlanifies = 4
    /\ stats.metrics.details.pasVenu = 1 /\ stats.metrics.details.concretise = 1
    /\ stats.metrics.details.annule = 1
    /\ stats.metrics.rdvConfirmes = 2 /\ stats.metrics.showUp = 1
    /\ stats.metrics.noShowRateNum = 500 /\ stats.metrics.conversionRateNum = 1000

----------------------------------------------------------------------------
(* Properties of fetch_all_opportunities *)

RECURSIVE ConcatPages(_)
\* The items of a sequence of responses, in page order.
ConcatPages(resps) ==
    IF resps = <<>> THEN <<>>
    ELSE ConcatPages(SubSeq(resps, 1, Len(resps) - 1)) \o resps[Len(resps)].opportunities

AllServedOk == \A i \in DOMAIN served : served[i].kind = "ok"

FailureKinds == {"non200", "transport"}

\* C4: when every page answered 200 and only the final page lacked
\* nextPageUrl, the fetch returns the concatenation of all pages' items in
\* page order, each item once, and issues no request after the final page.
C4_PaginationConcat ==
    (fpc = "done" /\ nreq <= MaxRequests /\ AllServedOk) =>
        /\ items = ConcatPages(served)
        /\ \A i \in DOMAIN served : served[i].nextPageUrl <=> i < Len(served)
        /\ ~ENABLED NextFetch

C4_Witness ==
    /\ fpc = "done"
    /\ AllServedOk
    /\ Len(served) = 3
    /\ nreq = 3
    /\ items = <<1, 2, 2, 1>>

\* C5: a non-200 answer or a transport exception is the last request of the
\* fetch (no retry, no later page), and the fetch returns exactly the items
\* of the pages received before it, in order.
C5_FailureTruncates ==
    \A i \in DOMAIN served :
        served[i].kind \in FailureKinds =>
            /\ i = Len(served)
            /\ nreq = i
            /\ fpc = "done"
            /\ ~ENABLED NextFetch
            /\ items = ConcatPages(SubSeq(served, 1, i - 1))

C5_Witness ==
    /\ Len(served) = 3
    /\ served[3].kind \in FailureKinds
    /\ items = <<1, 2, 1>>
    /\ fpc = "done"

\* C6: the fetch eventually returns, whatever the server answers.
C6_Terminates == <>(fpc = "done")

\* A step that sends a request after the first one.
LaterRequest == nreq >= 1 /\ nreq' > nreq

\* The url that carries the cursor of the preceding response's meta.
UrlWithCursorOf(m) ==
    [limit |-> PageLimit, cursor |-> TRUE,
     startAfterId |-> m.startAfterId, startAfter |-> m.startAfter]

\* C21: every request after the first carries the startAfterId and
\* startAfter of the preceding response's meta, only the first request has
\* no cursor parameters, and every request asks for limit=100.
C21_CursorOfPrecedingMeta ==
    [][/\ nreq' > nreq => lastUrl'.limit = PageLimit
       /\ nreq = 0 /\ nreq' > nreq => ~lastUrl'.cursor
       /\ LaterRequest => lastUrl' = UrlWithCursorOf(lastMeta)]_vars

\* What the loop does: the cursor is sent only when both of its parts are
\* truthy, and a later request without them repeats the first request.
CursorSentWhenTruthy ==
    [][/\ nreq' > nreq => lastUrl'.limit = PageLimit
       /\ LaterRequest =>
            IF lastMeta.startAfterId # 0 /\ lastMeta.startAfter # 0
            THEN lastUrl' = UrlWithCursorOf(lastMeta)
            ELSE ~lastUrl'.cursor]_vars

----------------------------------------------------------------------------
(* Properties of the ads extraction *)

Extracted == meta_metrics # NoResult /\ "error" \notin DOMAIN meta_metrics

\* C10: leads is the sum of the schedule_total conversions and, when that sum
\* is zero, the sum of the actions of type lead.
C10_LeadsFallback == Extracted => meta_metrics.leads = LeadsWithFallback(response.insights)

Answered == meta_metrics # NoResult

RECURSIVE TotalOfType(_, _, _)
\* The values of the first n entries that have type t, added up.
TotalOfType(entries, t, n) ==
    IF n = 0 THEN 0
    ELSE TotalOfType(entries, t, n - 1)
         + (IF entries[n].action_type = t THEN entries[n].value ELSE 0)

\* C11: a nonzero inline_link_clicks field is the link-click count as it is,
\* the actions not being added; a zero or absent field gives the sum of the
\* link_click actions.
C11_LinkClicks ==
    Extracted =>
        LET insights == response.insights
            field == insights.basics.inline_link_clicks
        IN  meta_metrics.inline_link_clicks =
                IF field # 0 THEN field
                ELSE TotalOfType(insights.actions, "link_click", Len(insights.actions))

\* A row with a nonzero field and a link_click action beside it.
C11_Witness ==
    /\ Extracted
    /\ response.insights.basics.inline_link_clicks = 10
    /\ response.insights.actions = <<Entry("link_click", 2), Entry("lead", 3)>>
    /\ meta_metrics.inline_link_clicks = 10

AllZero(m) ==
    /\ m.leads = 0 /\ m.spend = 0 /\ m.cpm = 0 /\ m.ctr = 0 /\ m.cpr = Zero
    /\ m.impressions = 0 /\ m.inline_link_clicks = 0 /\ m.video_30_sec_watched = 0
    /\ m.hook_rate = Zero /\ m.conversion_rate = Zero

ZeroWithError == AllZero(meta_metrics) /\ "error" \in DOMAIN meta_metrics

RequestFailed == response.kind \in {"non200", "transport"}

\* A value the extraction converts is no number, the video actions left aside.
UnparseableRead ==
    LET insights == response.insights
    IN  /\ response.kind = "ok"
        /\ \/ Malformed \in {insights.basics.spend, insights.basics.cpm, insights.basics.ctr,
                              insights.basics.impressions, insights.basics.inline_link_clicks}
           \/ \E i \in DOMAIN insights.conversions :
               /\ insights.conversions[i].action_type = "schedule_total"
               /\ insights.conversions[i].value = Malformed
           \/ /\ insights.basics.inline_link_clicks = 0
              /\ \E i \in DOMAIN insights.actions :
                  /\ insights.actions[i].action_type = "link_click"
                  /\ insights.actions[i].value = Malformed

\* A video action whose value is no number, in a row that has the video key.
UnparseableVideo ==
    /\ response.kind = "ok"
    /\ response.insights.has_video
    /\ \E i \in DOMAIN response.insights.video : response.insights.video[i].value = Malformed

RECURSIVE SumWellFormed(_)
\* The sum of the values of the entries whose value is a number.
SumWellFormed(entries) ==
    IF entries = <<>> THEN 0
    ELSE (IF Head(entries).value = Malformed THEN 0 ELSE Head(entries).value)
         + SumWellFormed(Tail(entries))

\* C26: video_30_sec_watched is the sum of the values of all well-formed
\* entries of video_30_sec_watched_actions, those before and those after a
\* malformed entry, and the extraction succeeds without an error.
C26_MalformedVideoSkipped ==
    Answered /\ ~(RequestFailed \/ UnparseableRead) /\ response.kind = "ok"
             /\ response.insights.has_video =>
        /\ "error" \notin DOMAIN meta_metrics
        /\ meta_metrics.video_30_sec_watched = SumWellFormed(response.insights.video)

\* What the loop gives: a malformed entry ends the sum, the entries after it
\* are not read.
VideoSumStopsAtMalformed ==
    Extracted /\ response.insights.has_video =>
        LET video == response.insights.video
            bad == {i \in DOMAIN video : video[i].value = Malformed}
            first == IF bad = {} THEN Len(video) + 1
                     ELSE CHOOSE i \in bad : \A j \in bad : i <= j
        IN  meta_metrics.video_30_sec_watched = SumWellFormed(SubSeq(video, 1, first - 1))

\* C12 as stated: after a non-200 answer, a transport exception or any
\* unparseable field the record is all zero and carries an error.
C12_AnyUnparseableField ==
    Answered /\ (RequestFailed \/ UnparseableRead \/ UnparseableVideo) => ZeroWithError

\* C12 (amended): fetch_meta_metrics always returns a record; after a
\* non-200 answer, a transport exception or an unparseable value outside the
\* video actions the record is all zero and carries an error; an
\* unparseable video action alone leaves a record without error.
C12_ZeroRecordOnFailure ==
    Answered =>
        /\ meta_metrics # Raised
        /\ (RequestFailed \/ UnparseableRead) => ZeroWithError
        /\ ~(RequestFailed \/ UnparseableRead) => "error" \notin DOMAIN meta_metrics

\* A row whose schedule_total conversion is no number, answered by the zero
\* record with its error.
C12_Witness ==
    /\ Answered
    /\ response.kind = "ok"
    /\ response.insights.basics = Basics(6, 7, 3, 4, 10)
    /\ response.insights.conversions = <<Entry("schedule_total", 2), Entry("schedule_total", Malformed)>>
    /\ ZeroWithError

----------------------------------------------------------------------------
(* Property of the rate formulas *)

RatesOf == SubSeq(rates, 2, Len(rates))

\* C3: no rate of the funnel aggregation, the ads extraction, the
\* appointment reduction, the join or the fleet summary raises, and each is
\* exactly 0 when its denominator is 0.
C3_ZeroDenominator ==
    \A i \in DOMAIN RatesOf :
        /\ RatesOf[i].value # ZeroDivisionError
        /\ RatesOf[i].den = 0 => RatesOf[i].value = Zero

C3_Witness ==
    /\ rates # <<>>
    /\ rates[1] = "ads"
    /\ \E i \in DOMAIN RatesOf : RatesOf[i].rate = "cpr" /\ RatesOf[i].den = 0
    /\ \E i \in DOMAIN RatesOf : RatesOf[i].den # 0 /\ RatesOf[i].value # Zero


----------------------------------------------------------------------------
(* Properties of the batches *)

Returned == returned.state = "returned"

FunnelBatch == batch \in {"updated", "created"}

LookupFailed(i) == tasks[i].answers[1] # "found"

\* Task i found its pipeline and aggregated its opportunities.
Healthy(i) ==
    /\ tasks[i].answers[1] = "found"
    /\ ~ParseRaises(ItemsFetched(tasks[i].answers[2]), DateFieldOf(batch))

\* The batch the claim is about: exactly one lookup failed, and nothing else.
OneLookupFailed ==
    /\ FunnelBatch /\ Returned
    /\ Cardinality({i \in DOMAIN tasks : LookupFailed(i)}) = 1
    /\ \A i \in DOMAIN tasks : LookupFailed(i) \/ Healthy(i)

\* What the center of task i gets in a batch of its own, the CRM giving it
\* the answers it gave it in this batch.
AloneResult(i) ==
    StatsOfRun(selected_centers[i], tasks[i].answers[2], DateFieldOf(batch))

\* C7: a funnel batch never raises, and when exactly one of its N centers
\* fails its pipeline lookup it returns N results: the failing center's has
\* an error field and no metrics, each other center's has no error and the
\* full metrics it would have without the failing center in the batch.
C7_FailureIsolated ==
    /\ FunnelBatch => returned.state # "raised"
    /\ OneLookupFailed =>
        /\ Len(returned.results) = Len(selected_centers)
        /\ \A i \in DOMAIN tasks :
            LET r == returned.results[i]
            IN  IF LookupFailed(i)
                THEN "error" \in DOMAIN r /\ "metrics" \notin DOMAIN r
                ELSE /\ "error" \notin DOMAIN r
                     /\ "metrics" \in DOMAIN r /\ "stageStats" \in DOMAIN r
                     /\ r = AloneResult(i)

\* A batch of three centers, the second failing its lookup after the third
\* had completed.
C7_Witness ==
    /\ OneLookupFailed
    /\ Len(tasks) = 3
    /\ LookupFailed(2)
    /\ completed = <<3, 2, 1>>

\* Task i of a funnel batch met one of the failures of get_center_stats_base:
\* its lookup failed, or a timestamp of its opportunities does not parse.
Failed(i) ==
    \/ LookupFailed(i)
    \/ /\ Len(tasks[i].answers) = 2
       /\ ParseRaises(ItemsFetched(tasks[i].answers[2]), DateFieldOf(batch))

\* The record of a failure: the center's name and city, an error string, and
\* no metrics.
ErrorRecordOf(r, center) ==
    /\ DOMAIN r = {"centerName", "city", "error"}
    /\ r.centerName = center.centerName /\ r.city = center.city
    /\ r.error \in {"Failed to fetch pipelines", "connection error",
                    "Pipeline not found", "Invalid isoformat string"}

\* C20: get_center_stats_base never raises; a non-200 pipeline list, a
\* missing pipeline or an exception during fetch or processing (a timestamp
\* that does not parse) gives a record with centerName, city and an error
\* string, and without metrics.
C20_ErrorRecordNeverRaises ==
    FunnelBatch =>
        \A i \in DOMAIN tasks :
            /\ tasks[i].pc # "raised"
            /\ tasks[i].pc = "done" /\ Failed(i) =>
                  ErrorRecordOf(tasks[i].result, selected_centers[i])
            /\ tasks[i].pc = "done" /\ ~Failed(i) =>
                  "error" \notin DOMAIN tasks[i].result

\* Three centers done, one for each failure: a non-200 lookup, a missing
\* pipeline, an unparseable timestamp.
C20_Witness ==
    /\ FunnelBatch /\ Len(tasks) = 3
    /\ \A i \in DOMAIN tasks : tasks[i].pc = "done"
    /\ tasks[1].answers = <<"non200">>
    /\ tasks[2].answers = <<"notfound">>
    /\ Len(tasks[3].answers) = 2 /\ Failed(3)
    /\ \A i \in DOMAIN tasks : ErrorRecordOf(tasks[i].result, selected_centers[i])

\* The pagination of task i failed: a page answered non-200 or raised.
PaginationFailed(i) ==
    /\ Len(tasks[i].answers) = 2
    /\ \E k \in DOMAIN tasks[i].answers[2] : tasks[i].answers[2][k].kind \in FailureKinds

\* The opportunities of the pages task i received before the failed one.
CollectedBefore(i) ==
    LET run == tasks[i].answers[2]
        k == CHOOSE j \in DOMAIN run : run[j].kind \in FailureKinds
    IN  ConcatPages(SubSeq(run, 1, k - 1))

\* C22: when a page of the opportunity fetch answers non-200 or raises after
\* the pipeline was found, the center's record holds the metrics of the
\* opportunities collected before the failure and no error field.
C22_TruncatedStillMetrics ==
    FunnelBatch =>
        \A i \in DOMAIN tasks :
            tasks[i].pc = "done" /\ PaginationFailed(i) =>
                LET r == tasks[i].result
                    body == CenterStats(CollectedBefore(i), DateFieldOf(batch))
                IN  /\ "error" \notin DOMAIN r
                    /\ "metrics" \in DOMAIN r
                    /\ r.metrics = body.metrics
                    /\ r.stageStats = body.stageStats

\* A center whose second page answered non-200 keeps the two opportunities
\* of its first page; a center whose first request raised has none.
C22_Witness ==
    /\ FunnelBatch /\ Len(tasks) >= 2
    /\ \A i \in {1, 2} : tasks[i].pc = "done" /\ PaginationFailed(i)
    /\ Len(tasks[1].answers[2]) = 2 /\ tasks[1].answers[2][2].kind = "non200"
    /\ tasks[1].result.metrics.totalRDVPlanifies = 2
    /\ Len(tasks[2].answers[2]) = 1 /\ tasks[2].answers[2][1].kind = "transport"
    /\ tasks[2].result.metrics.totalRDVPlanifies = 0
    /\ "error" \notin DOMAIN tasks[2].result

\* C8 as stated, the input being the selection the caller passes: the i-th
\* entry belongs to the i-th selected name.
C8_SelectionOrder ==
    Returned =>
        /\ Len(returned.results) = Len(selected_center_names)
        /\ \A i \in DOMAIN returned.results :
            returned.results[i].centerName = selected_center_names[i]

\* C8 (amended): the result list has one entry per selected center, and the
\* i-th entry belongs to the i-th of the selected centers taken in the order
\* of the configuration, whatever order the tasks completed in.
C8_ConfigurationOrder ==
    Returned =>
        /\ Len(returned.results) = Len(selected_centers)
        /\ \A i \in DOMAIN returned.results :
            returned.results[i].centerName = selected_centers[i].centerName

\* A batch whose tasks completed in the opposite order.
C8_Witness ==
    /\ Returned
    /\ Len(tasks) = 3
    /\ completed = <<3, 2, 1>>

\* C9: a batch that has returned has a result from every task it launched:
\* while a task has not completed the batch has not returned, and the list
\* it returns is never partial.
C9_GatherBarrier ==
    Returned =>
        /\ \A i \in DOMAIN tasks : tasks[i].pc = "done" /\ tasks[i].result # NoResult
        /\ Len(completed) = Len(tasks)
        /\ Len(returned.results) = Len(tasks)

\* A batch that returned after a task that needed two answers, the other
\* tasks having completed before it.
C9_Witness ==
    /\ Returned
    /\ Len(tasks) = 3
    /\ \E i \in DOMAIN tasks :
        /\ Len(tasks[i].answers) = 2
        /\ completed[3] = i


----------------------------------------------------------------------------
(* Properties of the join *)

Joined == ppc \in {"summary", "done"}

\* The center a name of NameChoices writes: its first two names write one
\* center, its last two another.
CenterOf(name) ==
    ((CHOOSE k \in DOMAIN NameChoices : NameChoices[k] = name) + 1) \div 2

\* The ads records of the center of the i-th created record.
AdsOf(i) ==
    {j \in DOMAIN meta_data :
        CenterOf(meta_data[j].centerName) = CenterOf(created_data[i].centerName)}

LastAdsOf(i) == meta_data[CHOOSE j \in AdsOf(i) : \A k \in AdsOf(i) : k <= j]

CreatedFailed(i) == "error" \in DOMAIN created_data[i]

AdsFailed(i) == AdsOf(i) # {} /\ "error" \in DOMAIN LastAdsOf(i).metrics

HoldsCreatedValues(r, c) ==
    /\ r.total_created = c.metrics.totalRDVPlanifies
    /\ r.concretise = c.metrics.details.concretise
    /\ r.confirmation_rate = Rat(c.metrics.confirmationRateNum, 10)
    /\ r.conversion_rate = Rat(c.metrics.conversionRateNum, 10)
    /\ r.cancellation_rate = Rat(c.metrics.cancellationRateNum, 10)
    /\ r.no_show_rate = Rat(c.metrics.noShowRateNum, 10)

HoldsAdsValues(r, m) ==
    /\ r.spend = m.metrics.spend /\ r.meta_leads = m.metrics.leads
    /\ r.cpm = m.metrics.cpm /\ r.ctr = m.metrics.ctr /\ r.cpr = m.metrics.cpr
    /\ r.impressions = m.metrics.impressions
    /\ r.inline_link_clicks = m.metrics.inline_link_clicks
    /\ r.video_30_sec_watched = m.metrics.video_30_sec_watched
    /\ r.hook_rate = m.metrics.hook_rate
    /\ r.meta_conversion_rate = m.metrics.conversion_rate

\* C13: the join gives one combined record per funnel record, and a funnel
\* record and an ads record whose names write the same center, whatever
\* their case and surrounding blanks, are in one record carrying both
\* sides' data; a funnel record without ads record keeps the ads zeros.
C13_JoinByNormalisedName ==
    Joined =>
        /\ Len(combined_results) = Len(created_data)
        /\ \A i \in DOMAIN created_data :
            LET r == combined_results[i]
            IN  /\ r.centerName = created_data[i].centerName
                /\ ~CreatedFailed(i) => HoldsCreatedValues(r, created_data[i])
                /\ AdsOf(i) # {} => HoldsAdsValues(r, LastAdsOf(i))
                /\ AdsOf(i) = {} => r.spend = 0 /\ r.meta_leads = 0 /\ ~r.has_meta_error

\* "Pa" on the funnel side and " pA " on the ads side, joined in one record.
C13_Witness ==
    /\ Joined
    /\ Len(created_data) = 1 /\ Len(meta_data) = 1
    /\ created_data[1].centerName = <<"P", "a">>
    /\ meta_data[1].centerName = <<" ", "p", "A", " ">>
    /\ Len(combined_results) = 1
    /\ combined_results[1].spend = 100
    /\ combined_results[1].total_created = 3

\* n / d * 100, or 0 when d is 0.
Percent(n, d) == IF d = 0 THEN Zero ELSE Rat(n * 100, d)

\* n / d * 100 to two decimals, or 0 when d is 0.
Percent2(n, d) == IF d = 0 THEN Zero ELSE Rat(RoundDiv(n * 10000, d), 100)

\* n / d to two decimals, or 0 when d is 0.
Quotient2(n, d) == IF d = 0 THEN Zero ELSE Rat(RoundDiv(n * 100, d), 100)

\* Every ads field of a combined record is zero.
AdsFieldsZero(r) ==
    /\ r.spend = 0 /\ r.meta_leads = 0 /\ r.cpm = 0 /\ r.ctr = 0 /\ r.cpr = Zero
    /\ r.impressions = 0 /\ r.inline_link_clicks = 0 /\ r.video_30_sec_watched = 0
    /\ r.hook_rate = Zero /\ r.meta_conversion_rate = Zero

\* C27: the join returns one combined record per funnel record, in the same
\* order; a funnel record without ads record is kept with every ads field
\* zero and has_meta_error false; and in every record cpa = spend/concretise,
\* cpl = spend/meta_leads, lead_to_sale_rate = concretise/meta_leads*100 and
\* lead_to_appointment_rate = total_created/meta_leads*100, each rounded to
\* two decimals (0 when its denominator is 0).
C27_OneRecordPerFunnelRecord ==
    Joined =>
        /\ [i \in DOMAIN combined_results |-> combined_results[i].centerName]
             = [i \in DOMAIN created_data |-> created_data[i].centerName]
        /\ \A i \in DOMAIN created_data :
            LET r == combined_results[i]
            IN  /\ AdsOf(i) = {} => AdsFieldsZero(r) /\ ~r.has_meta_error /\ r.meta_error = ""
                /\ r.cpa = Quotient2(r.spend, r.concretise)
                /\ r.cpl = Quotient2(r.spend, r.meta_leads)
                /\ r.lead_to_sale_rate = Percent2(r.concretise, r.meta_leads)
                /\ r.lead_to_appointment_rate = Percent2(r.total_created, r.meta_leads)

\* Two funnel records: the first has no ads record and keeps the ads zeros;
\* the second, with 3 appointments of which 1 sale, joins an account with
\* spend 100 and 3 leads: cpa 100, cpl 33.33, 33.33 % and 100 %.
C27_Witness ==
    /\ Joined
    /\ Len(created_data) = 2 /\ Len(combined_results) = 2
    /\ AdsOf(1) = {} /\ ~CreatedFailed(1)
    /\ combined_results[1].total_created = 3 /\ combined_results[1].spend = 0
    /\ combined_results[1].cpa = Zero
    /\ AdsOf(2) # {} /\ ~CreatedFailed(2)
    /\ combined_results[2].spend = 100 /\ combined_results[2].meta_leads = 3
    /\ combined_results[2].cpa = FromInt(100)
    /\ combined_results[2].cpl = [num |-> 3333, den |-> 100]
    /\ combined_results[2].lead_to_sale_rate = [num |-> 3333, den |-> 100]
    /\ combined_results[2].lead_to_appointment_rate = FromInt(100)

\* C14: each flag tells the failure of its own side only; when only the ads
\* fetch failed the funnel fields hold the funnel values, and when only the
\* funnel fetch failed the ads fields hold the ads values.
C14_IndependentFlags ==
    Joined =>
        \A i \in DOMAIN created_data :
            LET r == combined_results[i]
            IN  /\ r.has_created_error = CreatedFailed(i)
                /\ r.has_meta_error = AdsFailed(i)
                /\ AdsFailed(i) /\ ~CreatedFailed(i) => HoldsCreatedValues(r, created_data[i])
                /\ CreatedFailed(i) /\ AdsOf(i) # {} /\ ~AdsFailed(i) =>
                       HoldsAdsValues(r, LastAdsOf(i))

\* One center whose ads fetch failed and another whose funnel fetch failed.
C14_Witness ==
    /\ Joined
    /\ Len(created_data) = 2
    /\ AdsFailed(1) /\ ~CreatedFailed(1) /\ combined_results[1].total_created = 3
    /\ CreatedFailed(2) /\ AdsOf(2) # {} /\ ~AdsFailed(2) /\ combined_results[2].spend = 100


----------------------------------------------------------------------------
(* Properties of the fleet summary *)

Summarised == ppc = "done"

Flagged(c) == c.has_meta_error \/ c.has_created_error

\* The list without its flagged records.
Unflagged(combined_data) == SelectSeq(combined_data, LAMBDA c : ~Flagged(c))

SummaryFields ==
    {"total_centers", "total_spend", "total_impressions", "total_clicks",
     "total_video_30s", "total_meta_leads", "total_created", "total_concretise",
     "avg_cpa", "avg_cpl", "avg_cpm", "avg_ctr", "avg_cpr", "overall_hook_rate",
     "overall_meta_conversion_rate", "overall_lead_to_appointment",
     "overall_lead_to_sale", "overall_conversion_rate", "overall_confirmation_rate",
     "overall_cancellation_rate", "overall_no_show_rate"}

FullSummary == DOMAIN summary = SummaryFields

\* C15: when the list has a valid record, the summary is the summary of the
\* list without its flagged records, and it counts and adds up the valid
\* records only.
C15_FlaggedIgnored ==
    Summarised /\ Unflagged(combined_results) # <<>> =>
        /\ summary = PerformanceSummary(Unflagged(combined_results))
        /\ summary.total_centers = Len(Unflagged(combined_results))
        /\ summary.total_spend =
               SumSeq([i \in DOMAIN Unflagged(combined_results) |->
                          FromInt(Unflagged(combined_results)[i].spend)])

\* A valid center that spent 300 beside a center flagged for its funnel whose
\* ads account spent 100.
C15_Witness ==
    /\ Summarised
    /\ Len(combined_results) = 2
    /\ combined_results[1].has_created_error /\ combined_results[1].spend = 100
    /\ ~Flagged(combined_results[2]) /\ combined_results[2].spend = 300
    /\ summary.total_spend = FromInt(300)
    /\ summary.total_centers = 1

RECURSIVE Total(_)
Total(numbers) == IF numbers = <<>> THEN 0 ELSE Head(numbers) + Total(Tail(numbers))

\* sum(rate x spend) / sum(spend) over the valid records, to two decimals;
\* 0 when nothing was spent.
SpendWeighted(rate) ==
    LET valid == Unflagged(combined_results)
        spend == Total([i \in DOMAIN valid |-> valid[i].spend])
        weighted == Total([i \in DOMAIN valid |-> valid[i][rate] * valid[i].spend])
    IN  IF spend = 0 THEN Zero ELSE Rat(RoundDiv(weighted * 100, spend), 100)

\* sum(cpr x spend) over the valid records.
WeightedCpr ==
    LET valid == Unflagged(combined_results)
    IN  SumSeq([i \in DOMAIN valid |-> RatMul(valid[i].cpr, FromInt(valid[i].spend))])

TotalSpend ==
    LET valid == Unflagged(combined_results)
    IN  Total([i \in DOMAIN valid |-> valid[i].spend])

\* C16 as stated: avg_cpr is the quotient sum(cpr x spend) / sum(spend) itself.
C16_ExactWeighted ==
    Summarised /\ FullSummary /\ TotalSpend # 0 =>
        summary.avg_cpr = RatDiv(WeightedCpr, FromInt(TotalSpend))

\* C16 (amended): avg_cpm, avg_ctr and avg_cpr are the spend-weighted
\* averages of the valid records rounded to two decimals, 0 when the total
\* spend is 0.
C16_SpendWeighted ==
    Summarised /\ FullSummary =>
        /\ summary.avg_cpm = SpendWeighted("cpm")
        /\ summary.avg_ctr = SpendWeighted("ctr")
        /\ LET valid == Unflagged(combined_results)
               spend == Total([i \in DOMAIN valid |-> valid[i].spend])
               weighted == SumSeq([i \in DOMAIN valid |->
                                      RatMul(valid[i].cpr, FromInt(valid[i].spend))])
           IN  summary.avg_cpr =
                   IF spend = 0 THEN Zero ELSE round2(RatDiv(weighted, FromInt(spend)))

\* Spend 100 at ctr 2 and spend 300 at ctr 4: avg_ctr is 3.5.
C16_Witness ==
    /\ Summarised /\ FullSummary
    /\ Len(combined_results) = 2
    /\ combined_results[1].spend = 100 /\ combined_results[1].ctr = 2
    /\ combined_results[2].spend = 300 /\ combined_results[2].ctr = 4
    /\ summary.avg_ctr = [num |-> 7, den |-> 2]

\* C17: the summary is a full summary or exactly the record of the error
\* "No valid data available".
C17_TwoShapes ==
    Summarised => FullSummary \/ summary = [error |-> "No valid data available"]


\* The ads record joined to the i-th funnel record is that of a center
\* without ads account.
NoAdsAccount(i) == AdsOf(i) # {} /\ LastAdsOf(i).businessId = 0

\* The funnel records that enter the fleet totals.
Counted == {i \in DOMAIN created_data : ~CreatedFailed(i) /\ ~AdsFailed(i)}

RECURSIVE CreatedTotal(_, _)
\* The sum of a funnel count over a set of funnel records.
CreatedTotal(indices, field) ==
    IF indices = {} THEN 0
    ELSE LET i == CHOOSE x \in indices : TRUE
         IN  (IF field = "concretise" THEN created_data[i].metrics.details.concretise
              ELSE created_data[i].metrics.totalRDVPlanifies)
             + CreatedTotal(indices \ {i}, field)

\* C29: a center without ads account id gets, whatever the insights
\* endpoint would answer, zero ads metrics with an error; its combined
\* record has has_meta_error true, and the fleet summary leaves the whole
\* record out: its funnel counts are in no total and it is not in
\* total_centers.
C29_NoAccountExcluded ==
    /\ \A name \in Range(NameChoices), resp \in {AdsRow(100, 5, 2, 3), AdsRow(300, 7, 4, 4)} :
          MetaStats(WithoutAdsAccount(NamedCenter(name)), resp).metrics
            = ZeroMetrics("No business ID configured")
    /\ Joined =>
          \A i \in DOMAIN created_data :
              NoAdsAccount(i) =>
                  /\ combined_results[i].has_meta_error
                  /\ combined_results[i].meta_error = "No business ID configured"
                  /\ AdsFieldsZero(combined_results[i])
                  /\ i \notin Counted
    /\ Summarised /\ Counted # {} =>
          /\ summary.total_centers = Cardinality(Counted)
          /\ summary.total_created = FromInt(CreatedTotal(Counted, "totalRDVPlanifies"))
          /\ summary.total_concretise = FromInt(CreatedTotal(Counted, "concretise"))
    /\ Summarised /\ Counted = {} /\ created_data # <<>> => "error" \in DOMAIN summary

\* Two centers with 3 appointments and 1 sale each, the second without ads
\* account: the fleet has one center, 3 appointments and 1 sale.
C29_Witness ==
    /\ Summarised
    /\ Len(created_data) = 2
    /\ ~CreatedFailed(1) /\ ~CreatedFailed(2)
    /\ ~NoAdsAccount(1) /\ ~AdsFailed(1)
    /\ NoAdsAccount(2)
    /\ combined_results[2].total_created = 3 /\ combined_results[2].concretise = 1
    /\ combined_results[2].has_meta_error
    /\ summary.total_centers = 1
    /\ summary.total_created = FromInt(3)
    /\ summary.total_concretise = FromInt(1)

----------------------------------------------------------------------------
(* Properties of the appointment batch *)

AppointmentsReturned == batch = "appointments" /\ Returned

\* The listing call of a calendar of task i answered non-200 or raised.
ListingFailed(i) ==
    \E k \in DOMAIN tasks[i].answers : tasks[i].answers[k].kind \in {"non200", "transport"}

\* C18: the result of a center whose appointment listing answered non-200 or
\* raised carries an error field.
C18_ListingFailureCarriesError ==
    AppointmentsReturned =>
        \A i \in DOMAIN tasks : ListingFailed(i) => "error" \in DOMAIN returned.results[i]

\* The appointments the calendars of task i listed, in one list.
Listed(i) ==
    LET a == tasks[i].answers
        of(k) == IF a[k].kind = "ok" THEN a[k].appointments ELSE <<>>
    IN  IF Len(a) = 1 THEN of(1) ELSE of(1) \o of(2)

\* The appointments of task i, over all days, whose status is one of S.
NumberWith(i, S) ==
    Cardinality({k \in DOMAIN Listed(i) :
                    (IF Listed(i)[k].appointmentStatus = "Confirmed" THEN "confirmed"
                     ELSE Listed(i)[k].appointmentStatus) \in S})

TwoCalendars(i) == tasks[i].pc = "done" /\ Len(tasks[i].answers) = 2

\* The appointments calendar k of task i listed, [] when its fetch failed.
ListedBy(i, k) ==
    IF tasks[i].answers[k].kind = "ok" THEN tasks[i].answers[k].appointments ELSE <<>>

\* The number of the appointments of a list that start on day and have status.
OnDay(appointments, day, status) ==
    Cardinality({k \in DOMAIN appointments :
                    /\ appointments[k].startTime = day
                    /\ StatusOf(appointments[k]) = status})

StartingOn(appointments, day) ==
    Cardinality({k \in DOMAIN appointments : appointments[k].startTime = day})

\* C25: the appointments of a center's two calendars are concatenated without
\* deduplication: every day's total, every status count and totalAppointments
\* are the sums over both lists, so an appointment both calendars return
\* counts twice, and a calendar whose fetch failed leaves the other's counted.
C25_BothCalendarsCounted ==
    batch = "appointments" =>
        \A i \in DOMAIN tasks :
            TwoCalendars(i) =>
                LET r == tasks[i].result
                    first == ListedBy(i, 1)
                    second == ListedBy(i, 2)
                    days == {first[k].startTime : k \in DOMAIN first}
                            \cup {second[k].startTime : k \in DOMAIN second}
                IN  /\ r.totalAppointments = Len(first) + Len(second)
                    /\ DOMAIN r.appointmentsByDay = days
                    /\ \A d \in days :
                        /\ r.appointmentsByDay[d].total
                              = StartingOn(first, d) + StartingOn(second, d)
                        /\ \A st \in DOMAIN r.appointmentsByDay[d] \ {"total"} :
                              r.appointmentsByDay[d][st]
                                = OnDay(first, d, st) + OnDay(second, d, st)

\* Two centers with two calendars each: both calendars of one return the
\* same six appointments, which count twice; the first calendar of the other
\* fails and the six of its second calendar are counted.
C25_Witness ==
    /\ batch = "appointments"
    /\ \E i \in DOMAIN tasks :
        /\ TwoCalendars(i)
        /\ ListedBy(i, 1) = ListedBy(i, 2) /\ Len(ListedBy(i, 1)) = 6
        /\ tasks[i].result.totalAppointments = 12
        /\ tasks[i].result.appointmentsByDay[1] = [total |-> 4, confirmed |-> 2, showed |-> 2]
    /\ \E i \in DOMAIN tasks :
        /\ TwoCalendars(i)
        /\ tasks[i].answers[1].kind \in {"non200", "transport"}
        /\ tasks[i].result.totalAppointments = 6

----------------------------------------------------------------------------
(* Properties of the dashboard script *)

\* The login form was submitted with the configured credentials.
GoodSubmission ==
    event.kind = "submit" /\ event.user = username /\ event.pwd = password

\* C28: no page module is dispatched and no fetch is issued unless logged_in
\* is true; logged_in becomes true only when the login form is submitted
\* with both the configured username and password; a failed login leaves it
\* false; a logout click sets it to false, and the run that follows stops at
\* the login form.
C28_LoginGate ==
    [][/\ (shown' # shown \/ fetch_issued' # fetch_issued \/ ndispatched' # ndispatched)
            => logged_in /\ logged_in'
       /\ mpc' \in {"header", "routing"} => logged_in'
       /\ ~logged_in /\ logged_in' => mpc = "check_login" /\ GoodSubmission
       /\ mpc = "check_login" /\ event.kind = "submit" /\ ~GoodSubmission /\ ~logged_in
            => ~logged_in' /\ mpc' = "waiting"
       /\ mpc = "header" /\ event.kind = "logout"
            => ~logged_in' /\ mpc' = "check_login" /\ event' = Rerun
       /\ mpc = "check_login" /\ ~logged_in /\ event = Rerun /\ configured
            => mpc' = "waiting" /\ rendered' = "login_form" /\ ~logged_in'
             /\ UNCHANGED <<shown, fetch_issued, ndispatched>>]_vars

\* A visitor who logged in, was shown a page, clicked logout and is back at
\* the login form.
C28_Witness ==
    /\ ndispatched = 1 /\ shown = "Performance Overview"
    /\ fetch_issued = "fetch_centers_data"
    /\ ~logged_in
    /\ mpc = "waiting" /\ rendered = "login_form"
    /\ event = Rerun

====
